---------------------------- MODULE Spec2Model ----------------------------
(***************************************************************************)
(* A model of the snow-globe weather application.                         *)
(*                                                                         *)
(*   - CityPointModel: the seeded city layout generator                    *)
(*     (src/components/UI/Interface.tsx, lines 612-956).                   *)
(*   - Particles: the per-frame particle update (src/unnamed/part_001).    *)
(*   - SceneGroup, ShakeDetector, WeatherScene: tilt fusion and the shake  *)
(*     scalar (src/components/Scene/WeatherScene.tsx).                     *)
(*   - App: the remote and microphone wind scalars (src/unnamed/part_002). *)
(*                                                                         *)
(* JavaScript numbers are modelled in fixed point.  Each component states  *)
(* its unit.  A value that can be NaN or an infinity in the program is a   *)
(* member of JsNumber below.                                               *)
(***************************************************************************)
EXTENDS Integers, Sequences, FiniteSets, TLC

VARIABLES
  \* --- CityPointModel ---
  cityName,        \* the cityName prop
  isDay,           \* the isDay prop
  seed,            \* the closure variable `seed`, as the last generation pass left it
  layout,          \* the memoised { buildings, terrain, props, presenceLights }
  cells,           \* the classification of each retained cell in the last pass
  genLog,          \* per city: what its first and its latest generation pass returned
  renderError,     \* TRUE once a render of CityPointModel has thrown
  displayed,       \* the instance colours the effect set on the building, terrain
                   \* and prop meshes: a base colour and its scale in hundredths

  \* --- SceneGroup ---
  remoteOrientation, \* the remoteOrientation prop: Absent or [beta, gamma]
  controller,        \* the controller's data connection: "none", "open" or "closed"
  rotation,          \* groupRef.current.rotation: [x, z], in millionths of a radian
  frames,            \* useFrame callbacks run so far

  \* --- WeatherScene and ShakeDetector ---
  shakeIntensity,  \* the shakeIntensity state with every queued update applied
  shakeRendered,   \* shakeIntensity as the last render saw it (closures, effect deps)
  shakeTimer,      \* TRUE while a decay timeout of the shake effect is pending
  velocityRef,     \* velocityRef.current of ShakeDetector
  burst,           \* the run of shake events since the last decay step: kind and length

  \* --- App: wind scalars ---
  remoteWindIntensity,  \* the remoteWindIntensity state with every queued update applied
  micWindIntensity,     \* the micWindIntensity state with every queued update applied
  remoteRendered,       \* remoteWindIntensity as the last render of App saw it
  micRendered,          \* micWindIntensity as the last render of App saw it
  remoteTimer,          \* TRUE while a timeout of the remote wind decay effect is pending
  micInterval,          \* TRUE while the microphone sampling interval runs
  windIntensity,        \* the windIntensity prop the last render passed to WeatherScene
  events,               \* remote messages and loud microphone samples handled so far

  \* --- Particles ---
  particles,       \* the particles array: position, originalSpeed, swirlOffset, velocity
  condition,       \* the condition prop
  particleShake,   \* the shakeIntensity prop of Particles
  particleWind,    \* the windIntensity prop of Particles
  clock,           \* the frames run so far; the next one runs at FrameTimes[clock + 1]
  lastTick,        \* per particle, the position the last frame that ran the loop
                   \* moved it to, whether it respawned it, and the time of that
                   \* frame; <<>> when no frame has run the loop
  particleVelocity, \* particle.velocity of one particle, followed over any number
                   \* of frames whatever its position

  \* --- App: weather of the selected city ---
  currentCity,     \* the currentCity state
  weather,         \* the weather state: NoWeather or the response stored last
  loading,         \* the loading state
  fetches,         \* the getData() calls that have not finished: city and the
                   \* mounted flag of the effect run that started each
  lastFetch,        \* the getData() call that finished last, and whether it stored
                   \* its response; NoFetch before any has finished

  \* --- App: microphone wind input ---
  isMicEnabled,    \* the isMicEnabled state
  micRequests,     \* getUserMedia promises that have not settled
  micGrants,       \* getUserMedia calls made so far; a granted call's number names
                   \* its stream and its interval
  micStreamRef,    \* micStreamRef.current: 0 for null, or a stream
  liveStreams,     \* the captured streams whose tracks have not been stopped
  micIntervalRef,  \* micIntervalRef.current: 0 for null, or an interval id
  liveIntervals,    \* the sampling intervals that have not been cleared

  \* --- Interface: city search box ---
  searchQuery,     \* the searchQuery state, a sequence of characters
  searchResults,   \* the searchResults state, a sequence of city names
  isSearching,     \* the isSearching state
  searchTimeout,   \* the pending debounce timeout: NoTimer, or the val it closed over
  inFlight,        \* searchCities calls that have not returned: [id, query]
  keystrokes,       \* change events so far

  \* --- Interface: gift recorder ---
  isRecording,        \* the isRecording state
  recordingTime,      \* the recordingTime state
  videoUrl,           \* the videoUrl state: FALSE for null, TRUE for an object URL
  recorderState,      \* mediaRecorder.state, "none" while mediaRecorder is null
  onstopQueued,       \* stop() was called and the stop event is not yet dispatched
  recordingInterval,  \* the interval of the timer effect runs
  intervalTicks,      \* callbacks of that interval since the recording started
  recordings,         \* recordings started so far
  stoppedByHand       \* the button stopped the current recording

cityVars == <<cityName, isDay, seed, layout, cells, genLog, renderError, displayed>>
tiltVars == <<remoteOrientation, controller, rotation, frames>>
shakeVars == <<shakeIntensity, shakeRendered, shakeTimer, velocityRef, burst>>

windVars == <<remoteWindIntensity, micWindIntensity, remoteRendered, micRendered,
              remoteTimer, micInterval, windIntensity, events>>

particleVars == <<particles, condition, particleShake, particleWind, clock, lastTick>>

dragVars == <<particleVelocity>>

weatherVars == <<currentCity, weather, loading, fetches, lastFetch>>

micVars == <<isMicEnabled, micRequests, micGrants, micStreamRef, liveStreams,
             micIntervalRef, liveIntervals>>

searchVars == <<searchQuery, searchResults, isSearching, searchTimeout, inFlight,
                keystrokes>>

recorderVars == <<isRecording, recordingTime, videoUrl, recorderState, onstopQueued,
                  recordingInterval, intervalTicks, recordings, stoppedByHand>>

vars == <<cityVars, tiltVars, shakeVars, windVars, particleVars, dragVars, weatherVars, micVars, searchVars, recorderVars>>

\* What an action of one component leaves alone.
notCity == <<tiltVars, shakeVars, windVars, particleVars, dragVars, weatherVars, micVars, searchVars, recorderVars>>
notTilt == <<cityVars, shakeVars, windVars, particleVars, dragVars, weatherVars, micVars, searchVars, recorderVars>>
notShake == <<cityVars, tiltVars, windVars, particleVars, dragVars, weatherVars, micVars, searchVars, recorderVars>>
notWind == <<cityVars, tiltVars, shakeVars, particleVars, dragVars, weatherVars, micVars, searchVars, recorderVars>>
notParticles == <<cityVars, tiltVars, shakeVars, windVars, dragVars, weatherVars, micVars, searchVars, recorderVars>>
notWeather == <<cityVars, tiltVars, shakeVars, windVars, particleVars, dragVars, micVars, searchVars, recorderVars>>
notMic == <<cityVars, tiltVars, shakeVars, particleVars, dragVars, weatherVars, searchVars, recorderVars>>
notSearch == <<cityVars, tiltVars, shakeVars, windVars, particleVars, dragVars, weatherVars, micVars, recorderVars>>
notRecorder == <<cityVars, tiltVars, shakeVars, windVars, particleVars, dragVars, weatherVars, micVars, searchVars>>
notDrag == <<cityVars, tiltVars, shakeVars, windVars, particleVars, weatherVars, micVars, searchVars, recorderVars>>

(***************************************************************************)
(* JavaScript values that reach the arithmetic: a finite number (v, in the *)
(* unit of its component), NaN, the two infinities, null and undefined.    *)
(***************************************************************************)
Num(v)    == [k |-> "num", v |-> v]
NaN       == [k |-> "nan", v |-> 0]
Infinity  == [k |-> "inf", v |-> 0]
NegInfinity == [k |-> "ninf", v |-> 0]
Null      == [k |-> "null", v |-> 0]
Undefined == [k |-> "undef", v |-> 0]

\* ToNumber: null is 0, undefined is NaN
ToNumber(a) ==
  IF a.k = "null" THEN Num(0) ELSE IF a.k = "undef" THEN NaN ELSE a

IsNaN(a) == ToNumber(a).k = "nan"
IsFinite(a) == ToNumber(a).k = "num"

\* a < b on values that are not NaN
NumLess(a, b) ==
  CASE a.k = "ninf" -> b.k # "ninf"
    [] a.k = "inf"  -> FALSE
    [] OTHER        -> b.k = "inf" \/ (b.k = "num" /\ a.v < b.v)

\* a > b and a < b: false when either operand is NaN
JsGt(a, b) ==
  LET x == ToNumber(a)  y == ToNumber(b)
  IN  x.k # "nan" /\ y.k # "nan" /\ NumLess(y, x)

JsLt(a, b) == JsGt(b, a)

\* Math.min and Math.max: NaN when either operand is NaN
JsMin(a, b) ==
  LET x == ToNumber(a)  y == ToNumber(b)
  IN  IF x.k = "nan" \/ y.k = "nan" THEN NaN
      ELSE IF NumLess(y, x) THEN y ELSE x

JsMax(a, b) ==
  LET x == ToNumber(a)  y == ToNumber(b)
  IN  IF x.k = "nan" \/ y.k = "nan" THEN NaN
      ELSE IF NumLess(x, y) THEN y ELSE x

\* a + b
JsAdd(a, b) ==
  LET x == ToNumber(a)  y == ToNumber(b)
  IN  CASE x.k = "nan" \/ y.k = "nan" -> NaN
        [] x.k = "num" /\ y.k = "num" -> Num(x.v + y.v)
        [] x.k = "num" -> y
        [] y.k = "num" -> x
        [] x.k = y.k   -> x
        [] OTHER       -> NaN                       \* Infinity + -Infinity

\* -a
JsNeg(a) ==
  LET x == ToNumber(a)
  IN  CASE x.k = "num"  -> Num(-x.v)
        [] x.k = "inf"  -> NegInfinity
        [] x.k = "ninf" -> Infinity
        [] OTHER        -> NaN

JsSub(a, b) == JsAdd(a, JsNeg(b))

\* a * (n / d) for a positive constant n / d, rounded down
JsScale(a, n, d) ==
  LET x == ToNumber(a)
  IN  IF x.k = "num" THEN Num((x.v * n) \div d) ELSE x

\* the sign of a value that is not NaN: -1, 0 or 1
Sign(x) ==
  CASE x.k = "inf"  -> 1
    [] x.k = "ninf" -> -1
    [] OTHER        -> IF x.v > 0 THEN 1 ELSE IF x.v < 0 THEN -1 ELSE 0

\* a * b / d for a positive constant d, rounded down; Infinity * 0 is NaN
JsMul(a, b, d) ==
  LET x == ToNumber(a)  y == ToNumber(b)
  IN  CASE x.k = "nan" \/ y.k = "nan" -> NaN
        [] x.k = "num" /\ y.k = "num" -> Num((x.v * y.v) \div d)
        [] Sign(x) * Sign(y) > 0 -> Infinity
        [] Sign(x) * Sign(y) < 0 -> NegInfinity
        [] OTHER -> NaN

\* Math.abs
JsAbs(a) ==
  LET x == ToNumber(a)
  IN  CASE x.k = "num"  -> Num(IF x.v < 0 THEN -x.v ELSE x.v)
        [] x.k = "ninf" -> Infinity
        [] OTHER        -> x

(***************************************************************************)
(* CityPointModel: seeded RNG.  Math.sin(seed) * 10000, fractional part.   *)
(* RandTable[s + 1] is that value for seed s, in millionths, rounded up,   *)
(* so that `rand() > c` is exactly Rand(s) > c * 10^6.                     *)
(***************************************************************************)
RandTable ==
  <<
    0, 709849, 974269, 200081, 975047, 757254, 845019, 865988, 582467, 184853, 788892, 97935,
    270820, 670369, 73557, 878402, 966834, 25082, 127533, 772097, 452508, 556386, 486908, 795959,
    216380, 482500, 584505, 759285, 57884, 661158, 683760, 623547, 266813, 118602, 826862, 173306,
    211466, 618667, 685788, 953863, 131605, 773312, 784521, 252574, 19252, 35246, 883477, 731228,
    453387, 473473, 251463, 291759, 275921, 251502, 109512, 448267, 489980, 647553, 726481, 380072,
    893789, 822300, 193034, 557004, 260382, 286795, 488460, 800211, 723194, 151863, 906816, 546533,
    233628, 280432, 537396, 183646, 76369, 201586, 784560, 873313, 113461, 120058, 287825, 644612,
    903201, 243801, 415530, 821634, 983028, 694059, 966637, 875118, 339304, 178588, 480146, 617148,
    877455, 77391, 181281, 931659, 343589, 257872, 267914, 886315, 775969, 647165, 575000, 817446,
    185055, 426067, 573220, 485514, 43957, 180942, 803887, 353341, 613934, 20591, 478310, 958986,
    111843, 152248, 131539, 965094, 130132, 595409, 908257, 300673, 377106, 266080, 940499, 966129,
    835872, 657563, 248165, 686862, 667933, 855455, 477405, 801313, 396595, 713654, 49929, 546392,
    784062, 451621, 691732, 440219, 666057, 513520, 235704, 498815, 205238, 5808, 796628, 880173,
    153812, 514572, 240966, 197318, 252584, 922145, 496493, 898242, 327781, 972795, 915638, 498132,
    267113, 1324, 494555, 908680, 591402, 894671, 380258, 654049, 522361, 897878, 753359, 221673,
    473643, 485999, 189341, 804083, 843833, 211801, 760625, 289767, 763310, 179537, 992787, 85485,
    616424, 434254, 136708, 546680, 300556, 58430, 214084, 11640, 27028, 97493, 184069, 97002,
    203594, 24923, 580969, 949725, 679302, 666418, 185184, 521462, 529063, 293802, 994514, 456220,
    584884, 183906, 754727, 852586, 987125, 387979, 508383, 534853, 790027, 51220, 561829, 585971,
    230625, 623698, 357960, 158103, 232768, 392819, 166913, 866410, 679106, 421303, 238869, 906813,
    451550, 617133, 880925, 906512, 637007, 874368, 599997, 71856, 521193, 368066, 719805, 61398,
    122111, 237287, 988981, 83651, 919659, 428252, 356269, 931840, 397039, 187910, 82905, 528146,
    174863, 101701, 540265, 681773, 649890, 531198, 540536, 108187, 569385, 1549, 885934, 146741,
    143400, 43137, 210919, 827878, 905792, 485637, 502355, 525198, 639682, 715903, 852412, 590519,
    956293, 789798, 456340, 142255, 259811, 990013, 900108, 180890, 612506, 690551, 376292, 232784,
    441601, 359505, 528311, 325049, 68038, 960582, 382866, 646358, 30361, 13750, 876887, 717855,
    85243, 905098, 70940, 332646, 873481, 397885, 387941, 250044, 445720, 82655, 122599, 15339,
    347806, 637266, 886658, 348054, 847344, 389492, 183708, 88519, 956582, 788339, 721492, 329490,
    474058, 928488, 108032, 255515, 107402, 32334, 396823, 16449, 96605, 41827, 459505, 626322,
    638726, 555583, 671750, 172088, 498507, 99709, 546974, 698557, 127286, 151181, 98347, 221987,
    157235, 865544, 906757, 461399, 89804, 464040, 900727, 474804, 56090, 885230, 350605, 321846,
    57861, 673417, 929866, 424484, 608728, 814525, 364657, 655750, 218709, 220490, 328784, 232290,
    564337, 269739, 100709, 481719, 885406, 428938, 99106, 827104, 150602, 26314, 965764, 69443,
    524315, 336048, 580088, 679353, 806404, 246805, 567907, 739578, 435912, 457654, 484528, 773217,
    25311, 140477, 545060, 252821, 81191, 237598, 852369, 393309, 255499, 603939, 145806, 621500,
    882757, 812878, 355865, 144125, 548687, 902278, 546625, 57945, 941487, 410838, 538497, 675145,
    807756, 474022, 396770, 919811, 645813, 425903, 280172, 301792, 52933, 700130, 6616, 715719,
    152157, 168437, 424629, 849531, 725722, 227617, 162750, 176940, 201492, 65687, 56334, 396469,
    473242, 701469, 349487, 509458, 425467, 218061, 886303, 701756, 747871, 727930, 665971, 818591,
    519042, 9367, 744878, 678948, 197681, 464675, 761132, 642731, 862427, 129745, 302578, 897832,
    167138, 807187, 629289, 831768, 29668, 170216, 857762, 863111, 193266, 891658, 613404, 516713,
    43810, 229094, 982266, 663040, 567210, 193940, 436271, 953336, 281947, 282965, 798870, 617609,
    553922, 553509, 205967, 686536, 172461, 504238, 266676, 704008, 184941, 576506, 905930, 41515,
    292413, 441261, 819938, 429930, 47207, 348267, 767043, 755533, 757973, 222695, 26483, 621286,
    399998, 725476, 165539, 176952, 957611, 391170, 79017, 706756, 408252, 515987, 983244, 221023,
    70957, 480069, 687572, 971508, 556569, 987230, 156817, 665392, 627976, 648724, 159226, 596215,
    124115, 86404, 130526, 826109, 601642, 637678, 11243, 91630, 185853, 351573, 766605, 81621,
    358905, 81258, 741134, 488259, 462320, 724630, 484165, 631552, 109592, 345993, 962756, 712613,
    472216, 640806, 766167, 386069, 838050, 142422, 205171, 839432, 660866, 879484, 813918, 499554,
    345908, 818433, 379028, 600771, 635697, 542848, 800311, 450251, 569629, 419091, 230926, 211493,
    824484, 226082, 41353, 775063, 838862, 207547, 653172, 642101, 793350, 279915, 176283, 92332,
    324772, 364858, 13785, 823078, 104325, 12770, 283007, 525394, 763243, 613537, 619483, 521847,
    353127, 162729, 686836, 505852, 284730, 348186, 819971, 586510, 698292, 779758, 420621, 372059,
    566113, 275716, 183235, 267179, 475019, 447038, 542148, 887618, 908866, 374124, 975881, 37385,
    213002, 22077, 532009, 155066, 345390, 894974, 24407, 565056, 390499, 194885, 625833, 155689,
    330298, 707734, 160665, 670509, 855986, 281480, 583542, 82082, 974317, 631432, 466321, 206911,
    890020, 842781, 711369, 281863, 661557, 873413, 236141, 927933, 409220, 887836, 361780, 64607,
    805529, 115082, 39336, 882789, 910230, 113411, 793537, 823984, 270551, 809009, 455801, 663605,
    8899, 876728, 237919, 904716, 705234, 265847, 329832, 588543, 733852, 413746, 630867, 203069,
    774859, 615909, 602888, 35575, 723363, 603225, 580988, 928288, 423898, 320494, 494729, 635537,
    283036, 100621, 779579, 217449, 155977, 420384, 389479, 859207, 525643, 368172, 698519, 226152,
    884044, 474736, 472129, 80085, 974511, 583140, 477536, 210176, 776774, 175041, 769745, 110579,
    315260, 628489, 134336, 80137, 261584, 114601, 729503, 178061, 543392, 587260, 622044, 351940,
    622906, 132959, 67466, 654714, 833234, 739182, 177638, 697874, 609542, 461625, 4384, 190063,
    798315, 915186, 319598, 666712, 599096, 151385, 496611, 947684, 885786, 488070, 988566, 750767,
    288622, 360210, 650481, 836603, 640940, 739365, 573338, 182894, 267393, 333152, 46928, 588323,
    860368, 795038, 493211, 650336, 184220, 165144, 585536, 1622, 696482, 275625, 961643, 369979,
    64625, 57348, 768658, 519624, 687353, 955684, 863480, 795642, 329141, 414707, 205120, 501912,
    988887, 409948, 411428, 78185, 970924, 182553, 318871, 780977, 177374, 156897, 28169, 584055,
    592352, 518756, 602691, 122891, 608968, 429757, 74216, 70323, 477367, 440742, 959354, 674588,
    719080, 318356, 437908, 955899, 968513, 86331, 298650, 56936, 64410, 234151, 277318, 151924,
    562198, 581077, 309274, 984482, 742332, 962037, 98731, 378647, 657286, 89251, 421684, 649264,
    194899, 586485, 438181, 115550, 606016, 990815, 664386, 493038, 620996, 461888, 812356, 932783,
    387826, 967788, 221832, 482738, 60054, 38346, 166022, 305337, 168801, 14882, 123736, 186894,
    464295, 620294, 112854, 697508, 778688, 229425, 714114, 646284, 279244, 335101, 293681, 707323,
    32745, 600878, 52798, 309804, 565853, 134867, 507008, 693336, 613110, 727319, 320763, 699226,
    540569, 880505, 613146, 603380, 715895, 517070, 157452, 615764, 652297, 996276, 494431, 781565,
    556224, 575444, 152007, 596914, 553297, 221912, 587651, 667584, 209999, 932814, 437844, 272689,
    153332, 3683, 90504, 54570, 883079, 214073, 768130, 915363, 196215, 375530, 119356, 307315,
    675443, 492565, 647942, 243604, 280895, 631646, 940016, 476667, 947834, 845432, 928681, 954219,
    865111, 632264, 593685, 176006, 451187, 563789, 895688, 922211, 914014, 40583, 956802, 603444,
    891566, 905849, 774351, 371807, 232655, 79263, 306425, 762558, 134010, 518137, 418905, 428989,
    417703, 213328, 683586, 560277, 229557, 330878, 350094, 382147, 946221, 108332, 825953, 334054,
    253514, 325196, 268481, 392473, 795406, 905976, 665420, 583991, 55749, 755098, 77357, 618663,
    833758, 718408, 428298, 859505, 81917, 423278, 620579, 378826, 201677, 32321, 628622, 274272,
    560146, 115062, 750602, 146278, 666200, 734707, 712691, 822073, 926506, 327228, 990560, 594228,
    130567, 512377, 796334, 544306, 337677, 928386, 23436, 999445, 586130, 832819, 277851, 391203,
    51680, 83429, 877975, 530419, 273960, 832886, 565385, 949861, 849720, 507719, 93974, 547712,
    8799, 714006, 184184, 976719, 500769, 566188, 95356, 350566, 221202, 95670, 801575, 402104,
    695206, 616033, 986184, 286660, 452263, 549155, 639128, 969885, 898023, 966036, 509018, 802828,
    808635, 899196, 223719, 275293, 333794, 178489, 938978, 417388, 685865, 399985, 621121, 830498,
    504946, 812642, 15307, 176707, 549208, 978797, 893447, 940549, 643914, 904216, 689120, 450523,
    805044, 471559, 119563, 577161, 245387, 76561, 489725, 507393, 166177, 125484, 254654, 875879,
    37117, 871518, 578946, 640436, 531683, 738407, 538689, 165782, 317267, 967495, 411070, 197864,
    551428, 385288, 221884, 415551, 667990, 878736, 949780, 520487, 732966, 641098, 385303, 307276,
    982771, 178187, 826467, 991199, 936923, 986326, 177537, 853366, 129762, 711796, 646395, 931423,
    663091, 113211, 844609, 438608, 24124, 227178, 534314, 643133, 722563, 285755, 759265, 559604,
    32290, 876570, 935480, 640261, 821107, 80301, 570703, 804161, 293805, 475399, 95768, 330225,
    968917, 543661, 919005, 635894, 941339, 264717, 634205, 350615, 201355, 151893, 891802, 652326,
    837906, 953729, 692213, 238084, 489238, 249532, 621157, 391617, 505521, 261076, 894946, 171327,
    213936, 885982, 842312, 642086, 549440, 782335, 128947, 681661, 401567, 428114, 749094, 232383,
    277064, 184929, 688777, 131914, 615534, 470106, 529019, 105966, 560347, 419623, 583961, 211470,
    112450, 629717, 721507, 316740, 256285, 945366, 87237, 876088, 297379, 800795, 276548, 657202,
    896835, 46679, 989329, 936916, 804692, 575578, 668611, 680249, 680397, 67531, 196727, 926638,
    557915, 350760, 636481, 961440, 642219, 441129, 28792, 947291, 641435, 229012, 752408, 219566,
    571044, 389780, 489223, 687376, 414831, 532358, 999908, 281193, 227757, 682081, 607383, 216630,
    199254, 603483, 409578, 614154, 266311, 522872, 974546, 162926, 364959, 64441, 696580, 547406,
    593415, 112089, 192627, 939206, 368207, 738237, 616564, 550915, 787472, 979571, 229999, 354353,
    757930, 964184, 823372, 789149, 869919, 160515, 749667, 106262, 214563, 253876, 943173, 19119,
    505775, 908469, 222185, 878259, 267793, 367579, 252696, 62223, 82300, 170538, 854649, 817718,
    696137, 116285, 830802, 807119, 905059, 263327, 688786, 204092, 905289, 925908, 493154, 921163,
    221994, 865297, 121750, 569251, 276898, 656349, 857296, 816405, 753365, 46317, 181161, 761138,
    917630, 927750, 669586, 831838, 600106, 80925, 856881, 45934, 807455, 575415, 306190, 35073,
    212177, 631778, 619011, 866418, 957794, 690227, 417296, 437516, 538774, 578341, 890488, 641286,
    527622, 603161, 912050, 888905, 774688, 72250, 595481, 598237, 186336, 416708, 733121, 36169,
    64273, 367719, 465838, 304204, 634168, 737016, 149994, 865463, 739113, 479397, 502162, 436806,
    781452, 888533, 195590, 712659, 295019, 561504, 307366, 783238, 39614, 420069, 668606, 643065,
    878425, 205634, 91390, 423839, 746639, 907330, 199339, 716561, 242166, 43097, 312711, 584710,
    236752, 606223, 524019, 941696, 205775, 361270, 472424, 6363, 186956, 99356, 2787, 774976,
    406955, 86206, 777200, 103344, 288357, 764514, 238360, 962343, 812134, 693367, 923780, 964241,
    944496, 895887, 281181, 153544, 727910, 677676, 364488, 406962, 897179, 759218, 869824, 726549,
    272658, 102520, 803639, 83688, 57243, 541630, 837369, 275304, 327374, 582816, 302296, 921976,
    224835, 668604, 362302, 534687, 681574, 835989, 415014, 186581, 79319, 144232, 109592, 475019,
    518808, 732557, 870113, 450277, 745417, 511158, 5185, 745760, 732807, 608543, 283113, 175960,
    253972, 349675, 670400, 173852, 67324, 392799, 744520, 295098, 70286, 164165, 750206, 793007,
    980431, 56611, 432899, 945430, 83193, 56878, 952944, 508684, 188044, 309154, 426296, 676128,
    584010, 561404, 649113, 497523, 659825, 961844, 193446, 979746, 383388, 333396, 390331, 943076,
    634283, 356693, 402800, 2443, 637767, 730273, 368629, 879622, 593817, 381015, 550832, 960419,
    442396, 147544, 706429, 78540, 93519, 93498, 86378, 894437, 18337, 545259, 46465, 580775,
    541577, 83103, 497696, 670612, 39942, 254204, 688828, 485798, 929396, 258451, 651423, 666965,
    158005, 590181, 74488, 615799, 834504, 517327, 792895, 483832, 531417, 243809, 78895, 679680,
    638096, 292691, 593172, 292830, 722583, 716531, 971038, 784278, 76180, 63956, 745535, 25547,
    296909, 892735, 859996, 437461, 176588, 964174, 625540, 167977, 740616, 716010, 957378, 375744,
    725109, 475877, 175200, 18913, 752094, 909050, 368041, 654741, 584359, 80754, 797885, 380472,
    824068, 235091, 72666, 116249, 489184, 185390, 995024, 723045, 713425, 328213, 12140, 443030,
    614530, 300960, 897039, 663974, 22691, 181862, 850857, 84427, 635579, 565073, 119393, 471109,
    459836, 269350, 117921, 694632, 719106, 9931, 351902, 591267, 188173, 947156, 911584, 330773,
    85691, 494192, 744842, 421368, 950347, 485430, 408221, 270079, 303508, 437889, 225481, 884629,
    559620, 193362, 112042, 78308, 844300, 870046, 680869, 356813, 243056, 78966, 295642, 618975,
    336162, 540398, 10453, 203142, 65236, 114689, 913375, 43945, 871753, 416191, 471746, 149291,
    516540, 18987, 700261, 283581, 373834, 641879, 925013, 476751, 962990, 993952, 727491, 928061,
    268390, 856418, 949494, 279952, 223787, 77398, 248159, 833858, 794411, 278692, 390111, 691456,
    12190, 952178, 654620, 59904, 580700, 995150, 134442, 669664, 71024, 177996, 211425, 329318,
    542185, 546738, 291208, 204050, 415031, 359526, 635509, 521471, 173095, 797079, 20523, 418311,
    226879, 534761, 243375, 512268, 415992, 387490, 261466, 136741, 551865, 246250, 465094, 404448,
    535415, 105782, 138499, 9394, 244877, 451381, 788719, 508709, 199493, 609370, 988556, 577153,
    599150, 994067, 381838, 837336, 281887, 132377, 439922, 410268, 23343, 867352, 302601, 999010,
    91378, 53617, 558078, 801655, 729618, 397865, 329822, 960317, 692199, 601389, 895400, 492783,
    475895, 653059, 292070, 10051, 815098, 707765, 997793, 636947, 188467, 475711, 895282, 457248,
    961960, 720463, 266688, 476536, 389541, 877142, 737728, 932528, 269257, 20251, 7041, 144188,
    23528, 440534, 681142, 393005, 466253, 83639, 997692, 475895, 901524, 452180, 188708, 981291,
    227615, 874743, 644358, 873701, 714806, 818240, 910656, 473770, 173077, 768013, 764453, 511363,
    73361, 294094, 589730, 969855, 132596, 140376, 518271, 223974, 996202, 94002, 782187, 541671,
    566606, 791761, 957056, 149109, 561040, 18224, 980085, 613314, 350870, 138723, 919340, 224259,
    829095, 203678, 427031, 681249, 845214, 508395, 477060, 52804, 709237, 280841, 979388, 121826,
    239850, 162683, 319536, 510704, 537092, 708811, 623623, 604796, 342871, 58641, 282400, 394606,
    317052, 53501, 8210, 356652, 397735, 579088, 292749, 651132, 715903, 390234, 701313, 249077,
    443695, 932518, 271832, 268698, 318965, 262450, 137834, 850495, 70704, 236520, 641564, 661076,
    921213, 174925, 373218, 9590, 217265, 668992, 349223, 667322, 212638, 612985, 153250, 659042,
    596657, 451028, 814471, 255221, 640779, 55069, 116639, 901666, 690696, 169359, 366827, 902875,
    216259, 181837, 755280, 752237, 823597, 710292, 25109, 253711, 885607, 707691, 853987, 135206,
    982979, 846463, 319004, 217927, 150576, 192184, 692620, 460823, 127304, 403926, 827697, 846021,
    795101, 91723, 767222, 472098, 578652, 148322, 443815, 974207, 379644, 969361, 281780, 428276,
    985167, 337280, 132612, 480533, 202017, 442788, 596829, 910733, 501033, 907388, 126075, 792619,
    876805, 790382, 982870, 183380, 854360, 288346, 699104, 238576, 398172, 924737, 444305, 272540,
    28888, 81650, 631891, 125366, 460286, 147066, 791470, 557449, 486751, 601236, 245789, 497356,
    283559, 748784, 224046, 511569, 913072, 237637, 970249, 90375, 395045, 959402, 369800, 119746,
    799145, 829200, 701906, 428797, 300855, 759901, 360831, 720244, 863601, 669651, 628824, 57535,
    316745, 619144, 780592, 605413, 619884, 530466, 494268, 960100, 666504, 916864, 511416, 698997,
    915984, 355537, 215971, 140201, 336812, 249394, 796369, 703601, 273239, 395379, 527543, 326426,
    223097, 228820, 824507, 208718, 890339, 975767, 866988, 806881, 429873, 284602, 686724, 506107,
    664050, 742555, 414660, 483427, 773023, 387935, 16986, 894706, 238771, 644826, 72730, 263180,
    703513, 696052, 448506, 226178, 24992, 710724, 383569, 225410, 489239, 980074, 53122, 591590,
    390457, 87701, 429446, 50657, 493791, 70042, 388684, 473995, 335008, 915024, 789130, 751303,
    491892, 440900, 662253, 528562, 41667, 765604, 556930, 192152, 638450, 857550, 242106, 30847,
    595068, 985751, 201134, 712493, 585678, 310230, 550669, 240189, 704502, 453095, 285725, 16160,
    66635, 477085, 301039, 747687, 173917, 970965, 255339, 909907, 693424, 167290, 154536, 497675,
    891560, 755639, 842610, 9382, 273212, 267514, 808662, 686935, 221451, 409497, 792951, 270459,
    581687, 229434, 319145, 536860, 271384, 106103, 797154, 311564, 320707, 504278, 234799, 527562,
    321945, 560304, 190441, 565592, 678319, 832383, 983725, 275271, 754438, 230748, 316811, 308284,
    962910, 278072, 775550, 94425, 291999, 538903, 980185, 3147, 413144, 435972, 925218, 987576,
    61233, 256722, 827626, 985236, 101666, 936409, 295709, 17299, 996803, 633955, 980964, 590575,
    609663, 488450, 33251, 275036, 941875, 985345, 171247, 355640, 411301, 340129, 968969, 269372,
    680441, 863881, 519410, 948588, 52149, 987460, 484158, 949019, 848135, 850846, 567213, 145399,
    233001, 252878, 913971, 524923, 5419, 95787, 673149, 463426, 721701, 852254, 790550, 616655,
    156077, 76627, 206406, 752864, 233609, 937673, 550956, 404050, 699560, 3845, 903315, 871133,
    451485, 471422, 63458, 211511, 816740, 594931, 864073, 382332, 766337, 576723, 868796, 981058,
    924262, 763907, 856614, 711057, 820542, 638337, 584325, 64068, 563770, 359134, 962494, 20218,
    615551, 720773, 123774, 491624, 276345, 22898, 641974, 552477, 409111, 885262, 560170, 460001,
    238444, 99753, 38657, 28425, 586800, 650558, 359752, 50154, 843423, 5605, 964115, 109007,
    500529, 270102, 854475, 936089, 991448, 999206, 7016, 317514, 336030, 577707, 487966, 634900,
    870109, 589218, 781441, 852651, 332149, 907151, 131380, 445631, 191013, 297573, 315184, 126691,
    745989, 736635, 326478, 764829, 886073, 417529, 391363, 120626, 957403, 80031, 454568, 515211,
    316547, 425880, 354473, 762841, 112551, 631598, 925583, 61011, 424220, 311215, 919808, 963061,
    411172, 158773, 908329, 902697, 253481, 447409, 432229, 760371, 985853, 651797, 113685, 514347,
    586473, 945959, 425278, 757155, 679605, 813784, 286178, 422955, 150541, 960650, 788692, 226695,
    613137, 728731, 733568, 715729, 336359, 839028, 810154, 916278, 933386, 326121, 838903, 960398,
    254711, 393706, 999897, 79446, 548666, 664043, 40623, 496459, 80846, 82012, 546128, 681268,
    643420, 392484, 743637, 126603, 155830, 774031, 536765, 53336, 375548, 524119, 847855, 910192,
    29464, 257963, 76253, 434540, 508991, 661341, 973314, 911920, 617340, 874238, 619584, 225380,
    320978, 337959, 117840, 283836, 481309, 346611, 764005, 594500, 266724, 336818, 238741, 175274,
    834026, 274572, 198392, 570274, 55730, 794646, 892950, 597827, 473448, 433318, 476621, 772028,
    367137, 903548, 6990, 474778, 748643, 689712, 401800, 859567, 189087, 619629, 725587, 215343,
    839403, 804330, 825132, 795217, 926572, 909474, 81412, 628736, 856737, 538749, 391004, 670416,
    3706, 481704, 80286, 617316, 146394, 506392, 693435, 358493, 239786, 89022, 375515, 219268,
    390987, 321520, 920481, 596932, 711966, 591209, 685793, 734363, 605919, 987660, 481278, 784807,
    755467, 490320, 88819, 559542, 107341, 889267, 275029, 819021, 158910, 354472, 289038, 852180,
    569567, 889896, 150245, 904048, 888939, 404042, 643977, 128860, 543347, 724775, 737820, 981517,
    892505, 948441, 414918, 638134, 724765, 53865, 555329, 478964, 141667, 686601, 599567, 623113,
    328187, 888357, 425930, 50598, 857373, 973377, 917175, 990535, 446162, 973012, 909637, 963829,
    733485, 58331, 766087, 298974, 483708, 275871, 310043, 59287, 575894, 870979, 856460, 28665,
    362732, 897214, 892034, 712300, 142368, 68227, 686260, 640295, 504822, 709521, 453732, 22258,
    247131, 115835, 722107, 385632, 362690, 912964, 900226, 620896, 292148, 347860, 751955, 756987,
    105750, 807429, 272862, 100044, 871277, 184332, 863998, 25609, 17181, 119247, 240914, 708327,
    829049, 531884, 833299, 393909, 975951, 908199, 229607, 979046, 223126, 982387, 151394, 474140,
    842263, 503492, 874853, 547377, 984094, 836716, 860006, 517952, 764414, 221951, 861069, 976281,
    108828, 22788, 791651, 534810, 574715, 993703, 718921, 889035, 334364, 436281, 507177, 122389,
    81760, 170281, 950661, 697542, 908512, 65415, 742295, 99912, 209243, 85139, 804113, 834318,
    800949, 57011, 298400, 730761, 415009, 624433, 439212, 468044, 683864, 21032, 252459, 657037,
    332051, 377618, 683440, 131328, 233518, 319532, 958381, 288645, 434691, 37350, 242224, 309415,
    147595, 850757, 381994, 481485, 525592, 806146, 579619, 67591, 128942, 976302, 167406, 931782,
    357998, 891211, 313633, 526256, 637644, 897543, 167967, 359694, 82910, 372839, 90708, 258504,
    883165, 788993, 773574, 747915, 707334, 610342, 767566, 924114, 551404, 380319, 973291, 867521,
    610737, 356213, 1166, 361173, 394703, 977014, 219526, 889312, 983345, 944761, 796434, 568311,
    660887, 863006, 450366, 946636, 64515, 647272, 511031, 679995, 316611, 591989, 998935, 39559,
    126654, 930296, 870530, 950128, 854648, 911051, 633548, 536099, 572293, 442484, 173491, 367881,
    952153, 259956, 368303, 304025, 645846, 893394, 778356, 730689, 851764, 279960, 977500, 233014,
    43094, 861229, 690346, 219165, 55377, 302325, 17582, 182703, 720775, 552629, 80285, 771469,
    940521, 227480, 977355, 893373, 735788, 164082, 842801, 691683, 687715, 143901, 857682, 586632,
    149769, 726949, 953073, 536509, 427020, 552108, 658895, 382277, 457103, 957449, 2461, 752776,
    620047, 965881, 146957, 724008, 911711, 39089, 876423, 944008, 433875, 708521, 620690, 243714,
    337972, 950915, 100835, 357061, 684869, 820583, 430947, 554995, 809333, 760617, 561217, 522647,
    567451, 604803, 890406, 534131, 331307, 498178, 75523, 251144, 2651, 875744, 74568, 231842,
    391925, 85867, 250629, 845626, 260259, 689440, 617506, 226980, 479656, 647274, 126925, 849673,
    745118, 582282, 687939, 534673, 620826, 536488, 975795, 907796, 806285, 918844, 101637, 122983,
    531868, 612256, 464635, 311070, 723641, 289764, 256480, 518106, 764019, 912448, 187490, 618033,
    66942, 952276, 470398, 926533, 448440, 412546, 22438, 593362, 411549, 12569, 970446, 812625,
    398974, 441598, 160597, 683868, 231299, 987498, 765588, 108899, 305971, 858598, 403018, 46189,
    657476, 361792, 720137, 156362, 436352, 235267, 75456, 511252, 239572, 872871, 144361, 54500,
    736434, 857375, 56032, 829610, 278422, 86293, 780340, 994133, 903164, 464687, 988908, 596605,
    523035, 392342, 820204, 591499, 430417, 301838, 840997, 338127, 909872, 198644, 578602, 81305,
    882574, 36904, 109754, 501917, 547713, 817498, 13601, 520390, 597088, 200157, 817444, 934492,
    205098, 930170, 77770, 551833, 784881, 547505, 433871, 801033, 900983, 505264, 951787, 406607,
    64120, 126598, 715777, 712765, 847546, 993257, 577927, 246108, 263079, 869980, 490492, 195854,
    393054, 924125, 885825, 477122, 828830, 944358, 818115, 377798, 442052, 846242, 205694, 27979,
    423260, 408854, 512604, 999746, 492645, 66363, 230707, 187413, 90345, 34361, 164046, 273856,
    143807, 581103, 297663, 567360, 270824, 274596, 934690, 198148, 75110, 34603, 41144, 823847,
    906687, 495199, 184625, 860735, 705944, 900153, 55028, 375213, 244005, 850718, 129362, 284722,
    190973, 661585, 825473, 532515, 919273, 466655, 99133, 685352, 885018, 582964, 893914, 527355,
    396825, 974241, 922189, 860517, 70819, 579457, 389725, 705614, 291481, 918501, 700994, 371102,
    899743, 205870, 994719, 152903, 265951, 812530, 804285, 376859, 86208, 927111, 756474, 427133,
    889726, 537379, 534634, 97555, 927845, 53749, 596914, 816142, 30661, 332236, 546771, 505296,
    324742, 949656, 835232, 471323, 884895, 290574, 152399, 146926, 361996, 936668, 853442, 899378,
    126157, 597881, 810207, 874548, 202159, 504437, 609893, 230810, 841759, 338906, 120886, 219178,
    591768, 463584, 53535, 420826, 390755, 244982, 241276, 932901, 853226, 835988, 949214, 330062,
    389207, 506203, 314659, 126686, 381474, 937299, 927883, 256661, 669927, 347115, 458572, 382199,
    374315, 482888, 283904, 902763, 440188, 965565, 985315, 249769, 236912, 122844, 480827, 807244,
    849231, 283571, 991168, 165959, 151105, 712835, 301242, 344932, 8272, 991947, 837704, 4312,
    823993, 404214, 587169, 366599, 635942, 850101, 317755, 39130, 572790, 181928, 309636, 271723,
    276209, 456841, 914472, 747830, 967255, 711242, 13147, 413307, 304239, 111584, 285253, 839757,
    683086, 71891, 277965, 857678, 384559, 188341, 456845, 529420, 205231, 200505, 812424, 196938,
    882213, 366087, 522884, 477790, 471772, 402781, 206061, 175392, 388605, 359628, 742650, 717750,
    278054, 633615, 658319, 190376, 423380, 55640, 609738, 306678, 746863, 870016, 452014, 940729,
    230109, 94572, 542342, 558995, 625173, 128831, 154253, 3369, 142007, 265640, 690877, 669326,
    551503, 829138, 793423, 65920, 241842, 199796, 42063, 345049, 89694, 336375, 771951, 565062,
    939190, 702226, 208318, 981649, 86296, 65486, 656590, 976843, 820415, 240187, 988034, 748656,
    885871, 102937, 243703, 287009, 824626, 155070, 485813, 798005, 472821, 549946, 88924, 812639,
    287189, 487303, 889691, 439614, 867891, 555841, 182865, 631183, 721081, 80758, 545612, 440706,
    929908, 225976, 649302, 632493, 828328, 660690, 33639, 553759, 368072, 897395, 894617, 470150,
    917787, 475498, 278247, 135334, 304535, 723216, 323092, 678067, 905274, 300299, 241103, 268189,
    539874, 289351, 961016, 283037, 710672, 130496, 695030, 166636, 239938, 140194, 491336, 195050,
    911277, 950550, 712098, 689988, 877573, 979476, 768330, 676852, 239443, 223566, 604181, 82373,
    153036, 375280, 292194, 390609, 716605, 996375, 315508, 687436, 882818, 542843, 557286, 185654,
    772569, 135824, 678746, 941968, 426741, 625101, 632336, 305695, 922153, 249314, 822633, 359948,
    959883, 889630, 402150, 612414, 432668, 41232, 959941, 316761, 322293, 456852, 236101, 792759,
    6199, 562301, 516350, 796533, 139637, 137100, 877567, 718676, 118873, 515648, 530928, 22076,
    943626, 8223, 521943, 679506, 980145, 220177, 443790, 121204, 267303, 530844, 69298, 502981,
    395581, 55618, 448619, 454982, 174, 10526, 15550, 993615, 237611, 881010, 251114, 140433,
    814236, 144693, 297238, 852343, 150638, 80855, 711778, 886816, 93130, 866972, 844280, 821022,
    598871, 911136, 441172, 566275, 781006, 116536, 732215, 394372, 8637, 942964, 565251, 491803,
    207545, 459655, 888282, 936365, 832142, 960801, 508102, 323014, 757275, 571032, 721975, 771473,
    801804, 547679, 484553, 149680, 561947, 158542, 282083, 740186, 333128, 405419, 505942, 849889,
    445567, 827691, 95420, 919794, 125491, 931938, 806545, 770682, 584721, 490276, 267553, 650915,
    194694, 211913, 877503, 453479, 871818, 811586, 497127, 169200, 561812, 212942, 841734, 626493,
    511097, 477895, 7555, 363261, 457493, 151438, 485222, 310537, 354056, 834593, 174338, 794563,
    951904, 776354, 534533, 400201, 937473, 778827, 589749, 357974, 255875, 701514, 342718, 839663,
    91363, 796352, 457373, 664957, 63975, 819182, 330129, 999206, 415278, 834969, 947317, 145164,
    494040, 626039, 369614, 755985, 38762, 431225, 255586, 187926, 348768, 133985, 579097, 584225,
    442116, 777851, 771966, 127475, 683082, 844229, 29535, 895469, 427417, 788780, 47246, 108052,
    575060, 220927, 553333, 425639, 629882, 705497, 408782, 594738, 979788, 500057, 850774, 522371,
    2636, 842597, 603182, 638618, 498156, 18101, 921265, 414995, 836875, 399231, 235086, 295847,
    633232, 65237, 81761, 617980, 390334, 980575, 233203, 945722, 657246, 432212, 616591, 277498,
    814161, 548691, 994720, 420402, 9333, 250346, 858293, 850353, 193356, 688333, 402346, 102379,
    615420, 841832, 248151, 133702, 780774, 83570, 40527, 360517, 365939, 505358, 61869, 597467,
    498772, 792901, 778045, 208358, 862609, 145020, 146234, 831864, 339079, 65263, 272680, 914953,
    681535, 68792, 979383, 406901, 49227, 97393, 54243, 815716, 771698, 919241, 14436, 338173,
    719408, 215749, 5025, 612771, 739517, 138279, 143417, 438122, 259812, 111730, 814807, 405617,
    485293, 588077, 80162, 196056, 118356, 752415, 682230, 904911, 472594, 190153, 495452, 470476,
    534255, 878216, 156047, 406489, 149189, 381162, 781275, 78125, 268661, 449378, 826178, 926250,
    564661, 757203, 120825, 797114, 579208, 926305, 33206, 618408, 580295, 739841, 524063, 380023,
    160410, 528630, 784147, 483218, 609865, 515421, 62193, 359945, 85291, 55411, 22941, 44709,
    223614, 528849, 441193, 590939, 475100, 239816, 50384, 146426, 815564, 614572, 317798, 61534,
    55474, 962382, 561006, 107760, 198535, 172669, 781158, 461614, 150424, 396394, 852981, 276541,
    259316, 539483, 995558, 231564, 615541, 877613, 451282, 135887, 402630, 817898, 333112, 288421,
    711850, 52150, 943224, 946558, 573686, 528047, 921843, 921251, 644699, 779888, 316583, 686360,
    561756, 971020, 418851, 181153, 671035, 370779, 685025, 838160, 48875, 757972, 565875, 5101,
    518500, 288578, 850916, 970203, 753686, 662, 288088, 308689, 833745, 727558, 846033, 148928,
    849580, 684179, 821805, 863203, 412511, 965253, 799853, 904872, 611488, 720183, 410302, 115757,
    944369, 49084, 829548, 839510, 343875, 450924, 287130, 222796, 788005, 412053, 575978, 519490,
    65929, 164462, 311513, 776865, 119364, 716600, 750440, 772373, 276402, 846584, 41073, 408612,
    321922, 556657, 464242, 948075, 323313, 458505, 529210, 342637, 307723, 214753, 669988, 543881,
    136148, 930534, 194880, 384088, 353938, 516803, 415334, 818290, 192212, 662232, 798421, 812360,
    282690, 487532, 332472, 232671, 209245, 590355, 496021, 106178, 966275, 14178, 251282, 917466,
    255953, 786572, 69829, 412785, 520580, 895712, 356269, 732831, 802933, 51982, 420248, 249029,
    747921, 699504, 989720, 785678, 16149, 524639, 29410, 158904, 519413, 674268, 529664, 777939,
    983781, 438314, 909744, 5360, 313061, 411798, 880492, 851720, 421989, 835486, 433167, 749200,
    880811, 532508, 152366, 885876, 338887, 939401, 558567, 299093, 446690, 915845, 479755, 930521,
    299844, 484523, 800167, 898256, 144859, 475200, 195605, 265671, 126554, 416947, 172262, 451903,
    1901, 669208, 932863, 688336, 507971, 157674, 816634, 138636, 545007, 480038, 844489, 628649,
    303746, 342675, 127444, 968544, 721930, 440774, 570692, 806381, 857964, 264226, 517543, 803185,
    151370, 960526, 287798, 960172, 678665, 52043, 936530, 330749, 663464, 661092, 375447, 859710,
    296199, 815836, 830497, 51897, 477269, 576451, 21624, 316031, 292874, 703883, 412343, 111328,
    47297, 342681, 69178, 518716, 81000, 636323, 170075, 640327, 162076, 500326, 590595, 172824,
    141991, 249619, 727456, 438980, 195864, 810352, 563234, 802661, 372130, 98855, 493590, 938415,
    938019, 142475, 397078, 619609, 661154, 472998, 83810, 571450, 205824, 64383, 365778, 661364,
    817192, 142867, 482699, 353661, 917809, 684122, 499038, 406125, 82693, 191941, 301631, 971021,
    634526, 900539, 836572, 993070, 886841, 930768, 320880, 473584, 640989, 208492, 886799, 682525,
    949562, 194844, 260279, 828837, 970387, 376597, 230720, 270809, 209939, 134151, 818946, 804219,
    343057, 967308, 925973, 987186, 822994, 212302, 842960, 147468, 162512, 80291, 500499, 541279,
    906281, 665400, 223319, 550069, 559305, 668832, 529275, 548683, 247717, 265080, 793631, 640073,
    477815, 680560, 368838, 878879, 177088, 264130, 33003, 573292, 173976, 440773, 578689, 826236,
    916182, 816853, 554113, 993601, 478673, 973798, 160323, 892670, 759726, 190560, 901674, 60094,
    97374, 252024, 304200, 563332, 528477, 352078, 20177, 856260, 288692, 703192, 614730, 519614,
    422143, 737482, 768337, 305111
  >>

SinTable ==
  <<
    442520, 58374, -334988, -675463, -909297, -999574, -932039, -717356, -389418,
    0, 389418, 717356, 932039, 999574, 909297, 675463, 334988, -58374
  >>

CosTable ==
  <<
    -896758, -998295, -942222, -737394, -416147, -29200, 362358, 696707, 921061,
    1000000, 921061, 696707, 362358, -29200, -416147, -737394, -942222, -998295
  >>

SqrtTable ==
  <<
    0, 1000, 1414, 1732, 2000, 2236, 2449, 2646, 2828, 3000, 3162, 3317,
    3464, 3606, 3742, 3873, 4000, 4123, 4243, 4359, 4472, 4583, 4690, 4796,
    4899, 5000, 5099, 5196, 5292, 5385, 5477, 5568, 5657, 5745, 5831, 5916,
    6000, 6083, 6164, 6245, 6325, 6403, 6481, 6557, 6633, 6708, 6782, 6856,
    6928, 7000, 7071, 7141, 7211, 7280, 7348, 7416, 7483, 7550, 7616, 7681,
    7746, 7810, 7874, 7937, 8000, 8062, 8124, 8185, 8246, 8307, 8367, 8426,
    8485, 8544, 8602, 8660, 8718, 8775, 8832, 8888, 8944, 9000, 9055, 9110,
    9165, 9220, 9274, 9327, 9381, 9434, 9487, 9539, 9592, 9644, 9695, 9747,
    9798, 9849, 9899, 9950, 10000, 10050, 10100, 10149, 10198, 10247, 10296, 10344,
    10392, 10440, 10488, 10536, 10583, 10630, 10677, 10724, 10770, 10817, 10863, 10909,
    10954, 11000, 11045, 11091, 11136, 11180, 11225, 11269, 11314, 11358, 11402, 11446,
    11489, 11533, 11576, 11619, 11662, 11705, 11747, 11790, 11832, 11874, 11916, 11958,
    12000, 12042, 12083, 12124, 12166, 12207, 12247, 12288, 12329, 12369, 12410, 12450,
    12490, 12530, 12570, 12610, 12649, 12689, 12728
  >>


Rand(s) == RandTable[s + 1]

\* cityName.split('').map(c => c.charCodeAt(0))
CharCodes(name) ==
  CASE name = "London"    -> <<76, 111, 110, 100, 111, 110>>
    [] name = "New York"  -> <<78, 101, 119, 32, 89, 111, 114, 107>>
    [] name = "Tokyo"     -> <<84, 111, 107, 121, 111>>
    [] name = "Stockholm" -> <<83, 116, 111, 99, 107, 104, 111, 108, 109>>
    [] name = "Oslo"      -> <<79, 115, 108, 111>>
    [] name = "constructor" -> <<99, 111, 110, 115, 116, 114, 117, 99, 116, 111, 114>>
    [] OTHER              -> <<>>

RECURSIVE SumCodes(_)
SumCodes(codes) ==
  IF codes = <<>> THEN 0 ELSE Head(codes) + SumCodes(Tail(codes))

\* A seed that is not recomputed: the value the previous pass left behind.
StartSeedCarried(name) == seed

\* let seed = cityName.split('').reduce((acc, c) => acc + c.charCodeAt(0), 0)
StartSeed(name) == SumCodes(CharCodes(name))

(***************************************************************************)
(* CITY_STYLES and DEFAULT_STYLE.  waterBias is in millionths, heightScale *)
(* in tenths.  A flag a style does not set is absent from its record, as   *)
(* in the source, and reads as false.                                      *)
(***************************************************************************)
CITY_STYLES ==
  [n \in {"London", "New York", "Tokyo", "Stockholm"} |->
    CASE n = "London" ->
           [palette |-> <<"#8b4513", "#a0522d", "#696969", "#dcdcdc">>,
            waterBias |-> 300000, layout |-> "organic", heightScale |-> 15,
            roadColor |-> "#e5e5e5", hasRedBuses |-> TRUE, roofStyle |-> "varied"]
      [] n = "New York" ->
           [palette |-> <<"#1f2937", "#374151", "#9ca3af", "#bfdbfe">>,
            waterBias |-> -500000, layout |-> "grid", heightScale |-> 40,
            roadColor |-> "#e5e5e5", hasYellowTaxis |-> TRUE, centralPark |-> TRUE]
      [] n = "Tokyo" ->
           [palette |-> <<"#1a1a1a", "#2d2d2d", "#e5e5e5", "#3b82f6">>,
            waterBias |-> 100000, layout |-> "dense", heightScale |-> 25,
            roadColor |-> "#e5e5e5", neon |-> TRUE]
      [] n = "Stockholm" ->
           [palette |-> <<"#e4c594", "#d69e6e", "#c46d50", "#8c4b38", "#e9e4d8">>,
            waterBias |-> 500000, layout |-> "organic", heightScale |-> 12,
            roadColor |-> "#f3f4f6", hasBoats |-> TRUE, spire |-> TRUE]]

DEFAULT_STYLE ==
  [palette |-> <<"#9ca3af", "#d1d5db", "#4b5563">>,
   waterBias |-> 0, layout |-> "organic", heightScale |-> 10,
   roadColor |-> "#e5e5e5"]

\* CITY_STYLES is an object literal: a lookup of a name that is not a key of
\* its own goes to Object.prototype, whose members are functions and
\* objects: truthy values with none of the fields of a style.
ObjectPrototype == {"constructor", "toString", "valueOf", "hasOwnProperty", "__proto__"}
Inherited(name) == [inherited |-> name]

\* const style = CITY_STYLES[cityName] || DEFAULT_STYLE
StyleOf(name) ==
  IF name \in DOMAIN CITY_STYLES THEN CITY_STYLES[name]
  ELSE IF name \in ObjectPrototype THEN Inherited(name)
  ELSE DEFAULT_STYLE

\* style.layout === kind; a missing field is undefined and equals nothing
LayoutIs(style, kind) == "layout" \in DOMAIN style /\ style.layout = kind

\* style.<flag> used as a condition: an absent field is undefined, hence false
Flag(style, f) == f \in DOMAIN style /\ style[f]

\* style.groundColor || style.roadColor
GroundColor(style) ==
  IF "groundColor" \in DOMAIN style THEN style.groundColor
  ELSE IF "roadColor" \in DOMAIN style THEN style.roadColor
  ELSE "undefined"

(***************************************************************************)
(* The grid loop.  Lengths are in thousandths; size = 18, half = 9,        *)
(* blockSize = 0.8, gap = 0.1.  A matrix is the position, y-rotation and   *)
(* scale the dummy object held when dummy.updateMatrix() ran.              *)
(***************************************************************************)
size == 18
half == size \div 2
blockSize == 800
gap == 100

Matrix(px, py, pz, ry, sx, sy, sz) ==
  [px |-> px, py |-> py, pz |-> pz, ry |-> ry, sx |-> sx, sy |-> sy, sz |-> sz]

\* rand() * Math.PI and rand() * Math.PI * 2, in thousandths of a radian
TimesPi(r) == ((r \div 1000) * 3142) \div 1000
TimesTwoPi(r) == ((r \div 1000) * 6283) \div 1000

EmptyGen(s) ==
  [seed |-> s, buildings |-> <<>>, terrain |-> <<>>, props |-> <<>>,
   presenceLights |-> <<>>, cells |-> <<>>, threw |-> FALSE]

\* if (isWater) { ... }
WaterCell(g, style, s, posX, posZ, x, z) ==
  LET tile == [matrix |-> Matrix(posX, 0, posZ, 0, blockSize, 100, blockSize),
               color |-> "#bfdbfe"]
      boat == Flag(style, "hasBoats") /\ Rand(s) > 950000
      s1   == IF Flag(style, "hasBoats") THEN s + 1 ELSE s
  IN  [g EXCEPT !.terrain = Append(@, tile),
                !.cells = Append(@, [x |-> x, z |-> z, kind |-> "water"]),
                !.props = IF boat
                          THEN Append(@, [matrix |-> Matrix(posX, 100, posZ,
                                                     TimesPi(Rand(s1)), 300, 200, 600),
                                          color |-> "#fdfbf7", isLight |-> FALSE])
                          ELSE @,
                !.seed = IF boat THEN s1 + 1 ELSE s1]

\* else if (isPark) { ... }
ParkCell(g, style, s, posX, posZ, x, z) ==
  LET tile == [matrix |-> Matrix(posX, 100, posZ, 0, blockSize, 200, blockSize),
               color |-> "#d1fae5"]
      tree == Rand(s) > 300000
      jx   == ((Rand(s + 1) - 500000) * 3) \div 10000
      jz   == ((Rand(s + 2) - 500000) * 3) \div 10000
      sy   == 400 + (Rand(s + 3) * 3) \div 10000
  IN  [g EXCEPT !.terrain = Append(@, tile),
                !.cells = Append(@, [x |-> x, z |-> z, kind |-> "park"]),
                !.props = IF tree
                          THEN Append(@, [matrix |-> Matrix(posX + jx, 350, posZ + jz,
                                                     0, 200, sy, 200),
                                          color |-> "#064e3b", isLight |-> FALSE])
                          ELSE @,
                !.seed = IF tree THEN s + 4 ELSE s + 1]

\* A road branch that pushes no tile.
RoadCellNoTile(g, style, s, posX, posZ, x, z) ==
  [g EXCEPT !.cells = Append(@, [x |-> x, z |-> z, kind |-> "road"]),
            !.seed = s + 2]

\* A road branch that sets up a lamp and a bus on every cell.
RoadCellLampAndBus(g, style, s, posX, posZ, x, z) ==
  [g EXCEPT !.terrain = Append(@, [matrix |-> Matrix(posX, 50, posZ, 0, blockSize, 100, blockSize),
                                   color |-> GroundColor(style)]),
            !.cells = Append(@, [x |-> x, z |-> z, kind |-> "road"]),
            !.props = Append(Append(@, [matrix |-> Matrix(posX + 300, 500, posZ + 300,
                                                   0, 50, 1000, 50),
                                        color |-> "#fbbf24", isLight |-> TRUE]),
                             [matrix |-> Matrix(posX, 250, posZ, 0, 250, 300, 600),
                              color |-> "#dc2626", isLight |-> FALSE]),
            !.seed = s + 4]

\* else if (isRoad) { ... }: lamp, else taxi, else bus
RoadCell(g, style, s, posX, posZ, x, z) ==
  LET jitterY == (Rand(s) * 30) \div 1000000
      tile == [matrix |-> Matrix(posX, 50 + jitterY, posZ, 0, blockSize, 100, blockSize),
               color |-> GroundColor(style)]
      lamp  == Rand(s + 1) > 800000
      taxi  == ~lamp /\ Flag(style, "hasYellowTaxis") /\ Rand(s + 2) > 850000
      sBus  == IF Flag(style, "hasYellowTaxis") THEN s + 3 ELSE s + 2
      bus   == ~lamp /\ ~taxi /\ Flag(style, "hasRedBuses") /\ Rand(sBus) > 900000
      sEnd  == IF lamp THEN s + 2
               ELSE IF taxi THEN s + 4
               ELSE IF bus THEN sBus + 2
               ELSE IF Flag(style, "hasRedBuses") THEN sBus + 1
               ELSE sBus
  IN  [g EXCEPT !.terrain = Append(@, tile),
                !.cells = Append(@, [x |-> x, z |-> z, kind |-> "road"]),
                !.props =
                  IF lamp
                  THEN Append(@, [matrix |-> Matrix(posX + 300, 500, posZ + 300,
                                             0, 50, 1000, 50),
                                  color |-> "#fbbf24", isLight |-> TRUE])
                  ELSE IF taxi
                  THEN Append(@, [matrix |-> Matrix(posX, 150, posZ,
                                             TimesPi(Rand(s + 3)), 400, 150, 200),
                                  color |-> "#fbbf24", isLight |-> FALSE])
                  ELSE IF bus
                  THEN Append(@, [matrix |-> Matrix(posX, 250, posZ,
                                             TimesPi(Rand(sBus + 1)), 250, 300, 600),
                                  color |-> "#dc2626", isLight |-> FALSE])
                  ELSE @,
                !.seed = sEnd]

\* else { // Buildings ... }.  style.palette.length of a style without a
\* palette throws a TypeError, which ends the pass.
BuildingCell(g, style, s, posX, posZ, x, z) ==
  IF "palette" \notin DOMAIN style THEN [g EXCEPT !.threw = TRUE] ELSE
  LET dist == SqrtTable[x * x + z * z + 1]
      ratio == (dist * 10) \div 72                   \* dist / (half * 0.8)
      centerFactor == 1000 - (IF ratio < 1000 THEN ratio ELSE 1000)
      cf2 == (centerFactor * centerFactor) \div 1000
      h0 == ((500 + ((Rand(s) \div 1000) * 4 * cf2) \div 1000) * style.heightScale) \div 10
      spireDraw == Flag(style, "spire") /\ dist < 1500
      isSpire == spireDraw /\ Rand(s + 1) > 850000
      h1 == IF isSpire THEN 7000 + (Rand(s + 2) * 2) \div 1000 ELSE h0
      s1 == IF isSpire THEN s + 3 ELSE IF spireDraw THEN s + 2 ELSE s + 1
      height == IF h1 < 400 THEN 400 ELSE h1
      foot == IF isSpire THEN (blockSize * 8) \div 10 ELSE blockSize
      idx == (Rand(s1) * Len(style.palette)) \div 1000000
      colorHex == IF isSpire THEN "#2f3e46" ELSE style.palette[idx + 1]
      presence == Rand(s1 + 1) > 960000
      side == IF Rand(s1 + 2) > 500000 THEN 300 ELSE -300
      py == (height * (Rand(s1 + 3) \div 1000)) \div 1000
  IN  [g EXCEPT !.buildings =
                  Append(@, [matrix |-> Matrix(posX, height \div 2 + 100, posZ,
                                        0, foot, height, foot),
                             color |-> colorHex]),
                !.cells = Append(@, [x |-> x, z |-> z, kind |-> "building"]),
                !.presenceLights =
                  IF presence
                  THEN Append(@, [matrix |-> Matrix(posX + side, py, posZ,
                                             0, 200, 200, 200),
                                  phase |-> TimesTwoPi(Rand(s1 + 4))])
                  ELSE @,
                !.seed = IF presence THEN s1 + 5 ELSE s1 + 2]

\* A disc carve that keeps every cell of the grid.
OutsideDiscNever(x, z) == FALSE

\* dist > half - 1, with dist = Math.sqrt(x*x + z*z)
OutsideDisc(x, z) == x * x + z * z > (half - 1) * (half - 1)

\* A threshold below every noise value.
WaterThresholdNone(style) == -3000000

\* -1.2 + style.waterBias
WaterThreshold(style) == -1200000 + style.waterBias

\* The body of the inner loop for one (x, z).
GenCell(g, style, x, z) ==
  IF g.threw \/ OutsideDisc(x, z)                    \* continue
  THEN g
  ELSE
    LET s0 == g.seed
        posX == x * (blockSize + gap)
        posZ == z * (blockSize + gap)
        n0 == SinTable[x + half + 1] + CosTable[z + half + 1] + Rand(s0) \div 2
        n1 == IF Flag(style, "centralPark") /\ x > -2 /\ x < 2 /\ z > -4 /\ z < 4
              THEN 1500000 ELSE n0
        \* x % 3 === 0: the remainder is zero exactly when 3 divides x
        noise == IF LayoutIs(style, "grid") /\ (x % 3 = 0 \/ z % 3 = 0)
                 THEN 500000 ELSE n1
        \* -1.2 + undefined is NaN and noise < NaN is false
        isWater == "waterBias" \in DOMAIN style /\ noise < WaterThreshold(style)
        isPark == ~isWater /\ noise > 1300000
        isRoad == ~isWater /\ ~isPark
                  /\ Rand(s0 + 1) > (IF LayoutIs(style, "dense") THEN 850000 ELSE 600000)
        s1 == IF ~isWater /\ ~isPark THEN s0 + 2 ELSE s0 + 1
    IN  IF isWater THEN WaterCell(g, style, s1, posX, posZ, x, z)
        ELSE IF isPark THEN ParkCell(g, style, s1, posX, posZ, x, z)
        ELSE IF isRoad THEN RoadCell(g, style, s1, posX, posZ, x, z)
        ELSE BuildingCell(g, style, s1, posX, posZ, x, z)

\* The two nested for loops, for (x = -half ...) for (z = -half ...), over the
\* cells in loop order: cell i is x = i \div size - half, z = i % size - half.
\* GenCells runs the loop body for the cells lo..hi in that order.  The range
\* is split in two and the first half is evaluated (its seed is read) before
\* the second half is entered, so the evaluation does not nest once per cell.
RECURSIVE GenCells(_, _, _, _)
GenCells(g, style, lo, hi) ==
  IF lo = hi
  THEN GenCell(g, style, (lo \div size) - half, (lo % size) - half)
  ELSE LET mid == (lo + hi) \div 2
           first == GenCells(g, style, lo, mid)
       IN  IF first.seed >= 0 THEN GenCells(first, style, mid + 1, hi) ELSE first

\* The useMemo callback: one generation pass for `name`.
GenerateLayout(name) ==
  GenCells(EmptyGen(StartSeed(name)), StyleOf(name), 0, size * size - 1)

Cities == {"London", "New York", "Tokyo", "Stockholm", "Oslo", "constructor"}

\* What a pass for each city returns.  The callback reads nothing but the
\* name, so one evaluation per city serves every pass.
PassOf == [c \in Cities |-> GenerateLayout(c)]

\* App holds a city; CityPointModel has not rendered yet.
InitCity ==
  /\ cityName \in Cities \ ObjectPrototype
  /\ isDay = TRUE
  /\ seed = 0
  /\ layout = [buildings |-> <<>>, terrain |-> <<>>, props |-> <<>>,
               presenceLights |-> <<>>]
  /\ cells = <<>>
  /\ genLog = [c \in Cities |-> <<>>]
  /\ renderError = FALSE
  /\ displayed = [buildings |-> <<>>, terrain |-> <<>>, props |-> <<>>]

\* A tint at the night scale whatever the flag.
TintDarkens(color, day, factor) == [base |-> color, scale |-> factor]

\* const c = data.color.clone(); if (!isDay) c.multiplyScalar(factor / 100)
Tint(color, day, factor) == [base |-> color, scale |-> IF day THEN 100 ELSE factor]

\* The colours the effect of CityPointModel sets with setColorAt (881-920)
\* from the stored collections: buildings at 0.25, terrain at 0.4, props at
\* 0.2 when it is not day, and '#fff7ed' for a light.
Displayed(lay, day) ==
  [buildings |-> [i \in DOMAIN lay.buildings |-> Tint(lay.buildings[i].color, day, 25)],
   terrain |-> [i \in DOMAIN lay.terrain |-> Tint(lay.terrain[i].color, day, 40)],
   props |-> [i \in DOMAIN lay.props |->
                IF ~day /\ lay.props[i].isLight
                THEN [base |-> "#fff7ed", scale |-> 100]
                ELSE Tint(lay.props[i].color, day, 20)]]

LayoutOf(g) ==
  [buildings |-> g.buildings, terrain |-> g.terrain, props |-> g.props,
   presenceLights |-> g.presenceLights]

\* A render of CityPointModel that runs the layout useMemo: the first render
\* of a mount (name = cityName, after an unmount) or a changed cityName prop.
\* genLog keeps the first and the most recent pass of each city.
\* A pass that throws leaves the render without a result: there is no error
\* boundary, and React unmounts the tree.
Generate(name) ==
  LET g == PassOf[name]
      pass == [layout |-> LayoutOf(g), cells |-> g.cells]
  IN  /\ ~renderError
      /\ cityName' = name
      /\ IF g.threw
         THEN /\ renderError' = TRUE
              /\ UNCHANGED <<seed, layout, cells, genLog, displayed>>
         ELSE /\ seed' = g.seed
              /\ layout' = LayoutOf(g)
              /\ cells' = g.cells
              /\ genLog' = [genLog EXCEPT ![name] =
                              IF @ = <<>> THEN <<pass>> ELSE <<@[1], pass>>]
              /\ displayed' = Displayed(LayoutOf(g), isDay)
              /\ UNCHANGED renderError
      /\ UNCHANGED <<isDay, notCity>>

\* The isDay prop changes; cityName is unchanged, so the useMemo is not
\* re-run; isDay is a dependency of the effect, which sets the colours again.
SetDay(d) ==
  /\ ~renderError
  /\ cells # <<>>
  /\ d # isDay
  /\ isDay' = d
  /\ displayed' = Displayed(layout, d)
  /\ UNCHANGED <<cityName, seed, layout, cells, genLog, renderError, notCity>>

NextCity ==
  \/ \E name \in Cities : Generate(name)
  \/ \E d \in BOOLEAN : SetDay(d)


(***************************************************************************)
(* SceneGroup (WeatherScene.tsx 138-159): the remote tilt is blended into  *)
(* the group rotation in every frame.  Angles of the prop are in degrees,  *)
(* rotations in millionths of a radian.                                    *)
(***************************************************************************)
QuarterPi == 785398                      \* Math.PI / 4
DegToRadFactor == 17453                  \* Math.PI / 180

MaxFrames == 4

Absent == [present |-> FALSE, beta |-> Undefined, gamma |-> Undefined]
Orientation(b, g) == [present |-> TRUE, beta |-> b, gamma |-> g]

\* a || 0: null, undefined, NaN and 0 are falsy
OrZero(a) ==
  IF a.k \in {"null", "undef", "nan"} \/ (a.k = "num" /\ a.v = 0) THEN Num(0) ELSE a

\* THREE.MathUtils.degToRad(a) = a * (Math.PI / 180)
degToRad(a) == JsScale(a, DegToRadFactor, 1)

\* A target that is not clamped.
clampMissing(value, min, max) == value

\* THREE.MathUtils.clamp(value, min, max) = Math.max(min, Math.min(max, value))
clamp(value, min, max) == JsMax(min, JsMin(max, value))

\* THREE.MathUtils.lerp(x, y, t) = (1 - t) * x + t * y, for t = n / d
lerp(x, y, n, d) == JsAdd(x, JsScale(JsSub(y, x), n, d))

\* The tilt pairs a controller reports: DeviceOrientationEvent.beta and .gamma
\* are numbers or null; the message may also lack a field or carry NaN or an
\* infinity.
TiltInputs ==
  { Orientation(Num(1000), Num(-1000)),
    Orientation(Null, NaN),
    Orientation(Infinity, NegInfinity),
    Orientation(Num(20), Num(-30)),
    Orientation(Num(-1000), Undefined),
    Orientation(NaN, Num(1000)) }

\* App passes remoteOrientation, initially { beta: 0, gamma: 0 } (part_002
\* 152, 458); the App without a controller link passes none (part_002 87-92).
InitTilt ==
  /\ remoteOrientation \in {Absent, Orientation(Num(0), Num(0))}
  /\ controller = "none"
  /\ rotation = [x |-> Num(0), z |-> Num(0)]
  /\ frames = 0

\* peer.on('connection', (conn) => { conn.on('data', ...) }) (part_002
\* 179-180): a controller opens a data connection to the host.
ControllerConnect ==
  /\ remoteOrientation.present
  /\ controller \in {"none", "closed"}
  /\ controller' = "open"
  /\ UNCHANGED <<remoteOrientation, rotation, frames, notTilt>>

\* The connection closes.  The host registers no handler but 'data' on it
\* (part_002 179-192), so no state of the App changes.
ControllerClose ==
  /\ controller = "open"
  /\ controller' = "closed"
  /\ UNCHANGED <<remoteOrientation, rotation, frames, notTilt>>

\* conn.on('data'): data.type === 'orientation' (part_002 189-191)
SetRemoteOrientation(o) ==
  /\ remoteOrientation.present
  /\ controller = "open"
  /\ remoteOrientation' = o
  /\ UNCHANGED <<controller, rotation, frames, notTilt>>

\* A z target with the sign of gamma.
TargetZSameSign(o) ==
  clamp(degToRad(OrZero(o.gamma)), Num(-QuarterPi), Num(QuarterPi))

\* targetX
TargetX(o) == clamp(degToRad(OrZero(o.beta)), Num(-QuarterPi), Num(QuarterPi))

\* -targetZ, the value rotation.z is blended toward
TargetZ(o) ==
  JsNeg(clamp(degToRad(OrZero(o.gamma)), Num(-QuarterPi), Num(QuarterPi)))

\* useFrame(() => { ... }) of SceneGroup
TiltFrame ==
  /\ frames < MaxFrames
  /\ frames' = frames + 1
  /\ IF remoteOrientation.present
     THEN rotation' = [x |-> lerp(rotation.x, TargetX(remoteOrientation), 1, 10),
                      z |-> lerp(rotation.z, TargetZ(remoteOrientation), 1, 10)]
     ELSE rotation' = [x |-> lerp(rotation.x, Num(0), 5, 100),
                       z |-> lerp(rotation.z, Num(0), 5, 100)]
  /\ UNCHANGED <<remoteOrientation, controller, notTilt>>

NextTilt ==
  \/ ControllerConnect
  \/ ControllerClose
  \/ \E o \in TiltInputs : SetRemoteOrientation(o)
  \/ TiltFrame

(***************************************************************************)
(* WeatherScene (WeatherScene.tsx 161-203, 225-227) and ShakeDetector      *)
(* (105-135): the shake scalar.  Scalars are in tenths.                    *)
(*                                                                         *)
(* React applies queued state updates in order at the next render, so      *)
(* shakeIntensity holds the state with the queue applied; callbacks        *)
(* created by a render (onShake) and the dependency of the decay effect    *)
(* see shakeRendered until the next render commits.                        *)
(***************************************************************************)
ShakeStep == 20                          \* prev + 2
ShakeMax == 80                           \* Math.min(..., 8)
ShakeDecay == 1                          \* prev - 0.1
ForceThreshold == 25                     \* totalForce > 25
SpeedThreshold == 30                     \* speed > 3
VelocityMax == 50                        \* Math.min(speed * 0.5, 5)

NoBurst == [kind |-> "none", n |-> 0]
BurstAfter(kind) ==
  IF burst.kind = kind
  THEN [kind |-> kind, n |-> IF burst.n < 10 THEN burst.n + 1 ELSE 10]
  ELSE [kind |-> kind, n |-> 1]

InitShake ==
  /\ shakeIntensity = Num(0)
  /\ shakeRendered = Num(0)
  /\ shakeTimer = FALSE
  /\ velocityRef = Num(0)
  /\ burst = NoBurst

\* An increment that is not clamped.
ShakeBumpUnclamped(prev) == JsAdd(prev, Num(ShakeStep))

\* prev => Math.min(prev + 2, 8)
ShakeBump(prev) == JsMin(JsAdd(prev, Num(ShakeStep)), Num(ShakeMax))

\* handleDevicemotion: totalForce is |x| + |y| + |z| of
\* accelerationIncludingGravity, or NoAcc when the event carries none.
NoAcc == -1
DeviceMotion(totalForce) ==
  /\ IF totalForce # NoAcc /\ totalForce > ForceThreshold
     THEN /\ shakeIntensity' = ShakeBump(shakeIntensity)
          /\ burst' = BurstAfter("motion")
     ELSE UNCHANGED <<shakeIntensity, burst>>
  /\ UNCHANGED <<shakeRendered, shakeTimer, velocityRef, notShake>>

\* velocityRef.current *= 0.9.  A double times 0.9 is never 0 unless it was
\* 0; rounding to the nearest tenth keeps that.
VelocityDecay(v) == Num((v.v * 9 + 5) \div 10)

\* The useFrame callback of ShakeDetector in a frame with dt > 0.1, the
\* camera having turned at `speed` (tenths of a radian per second), and the
\* onShake callback of the last render: if (val > shakeIntensity) set.
DetectorFrame(speed) ==
  LET val == IF speed > SpeedThreshold
             THEN JsMin(Num(speed \div 2), Num(VelocityMax))
             ELSE VelocityDecay(velocityRef)
  IN  /\ velocityRef' = val
      /\ shakeIntensity' = IF JsGt(val, shakeRendered) THEN val ELSE shakeIntensity
      /\ burst' = IF val = Num(VelocityMax) THEN BurstAfter("detector") ELSE NoBurst
      /\ UNCHANGED <<shakeRendered, shakeTimer, notShake>>

\* The timeout of the decay effect fires:
\* setShakeIntensity(prev => Math.max(0, prev - 0.1))
ShakeDecayTimer ==
  /\ shakeTimer
  /\ shakeTimer' = FALSE
  /\ shakeIntensity' = JsMax(Num(0), JsSub(shakeIntensity, Num(ShakeDecay)))
  /\ burst' = NoBurst
  /\ UNCHANGED <<shakeRendered, velocityRef, notShake>>

\* WeatherScene re-renders with a changed shakeIntensity; the decay effect
\* (deps [shakeIntensity]) is cleaned up (clearTimeout) and run again.  With
\* an unchanged value React keeps the previous render and the effect as is.
ShakeRender ==
  /\ shakeIntensity # shakeRendered
  /\ shakeRendered' = shakeIntensity
  /\ shakeTimer' = JsGt(shakeIntensity, Num(0))
  /\ UNCHANGED <<shakeIntensity, velocityRef, burst, notShake>>

TotalForces == {NoAcc, 10, 30}
CameraSpeeds == {0, 40, 120}

\* Steps that report no forcing: no devicemotion above the threshold and no
\* camera speed above the ShakeDetector threshold.
QuietShakeStep ==
  \/ ShakeDecayTimer
  \/ ShakeRender
  \/ \E f \in TotalForces : (f = NoAcc \/ f <= ForceThreshold) /\ DeviceMotion(f)
  \/ \E s \in CameraSpeeds : s <= SpeedThreshold /\ DetectorFrame(s)

\* A shake report: the devicemotion handler or the ShakeDetector callback.
ShakeReport ==
  \/ \E f \in TotalForces : DeviceMotion(f)
  \/ \E s \in CameraSpeeds : DetectorFrame(s)

NextShake ==
  \/ \E f \in TotalForces : DeviceMotion(f)
  \/ \E s \in CameraSpeeds : DetectorFrame(s)
  \/ ShakeDecayTimer
  \/ ShakeRender

(***************************************************************************)
(* App (part_002 147-208, 343-394, 457): the remote wind scalar fed by     *)
(* peer messages, the microphone wind scalar fed by the sampling interval, *)
(* and the windIntensity prop.  Scalars are in tenths.  The messages are   *)
(* the ones MobileController (part_000) sends, and the same messages with  *)
(* an intensity that is negative, not finite or missing: the handler takes *)
(* `data: any` from whichever peer connects.                               *)
(***************************************************************************)
RemoteMax == 100                         \* Math.min(prev + data.intensity, 10)
RemoteDecay == 2                         \* prev - 0.2
MicThreshold == 30                       \* avg > 30
MicForceMax == 80                        \* Math.min((avg - 30) / 10, 8)
MicDecay == 2                            \* prev - 0.2
MaxEvents == 3

\* MobileController: intensity of a 'shake' message for an acceleration
\* delta above 15, Math.min(delta / 5, 10)
ControllerShake(delta) == IF 2 * delta < 100 THEN Num(2 * delta) ELSE Num(100)

\* MobileController: intensity of a 'wind' message for an average volume
\* above 30, (avg - 30) / 10
ControllerWind(avg) == Num(avg - 30)

Malformed == {NaN, Infinity, Undefined, Num(-30)}

Messages ==
  {[type |-> "shake", intensity |-> ControllerShake(d)] : d \in {20, 60}}
    \cup {[type |-> "wind", intensity |-> ControllerWind(a)] : a \in {35, 150}}
    \cup {[type |-> ty, intensity |-> i] : ty \in {"shake", "wind"}, i \in Malformed}

InitWind ==
  /\ remoteWindIntensity = Num(0)
  /\ micWindIntensity = Num(0)
  /\ remoteRendered = Num(0)
  /\ micRendered = Num(0)
  /\ remoteTimer = FALSE
  /\ micInterval \in BOOLEAN
  /\ windIntensity = Num(0)
  /\ events = 0

\* conn.on('data', ...)
RemoteMessage(data) ==
  /\ events < MaxEvents
  /\ events' = events + 1
  /\ remoteWindIntensity' =
       IF data.type = "shake"
       THEN JsMin(JsAdd(remoteWindIntensity, data.intensity), Num(RemoteMax))
       ELSE data.intensity
  /\ UNCHANGED <<micWindIntensity, remoteRendered, micRendered, remoteTimer,
                 micInterval, windIntensity, notWind>>

\* The timeout of the remote wind decay effect fires:
\* setRemoteWindIntensity(prev => Math.max(0, prev - 0.2))
RemoteDecayTimer ==
  /\ remoteTimer
  /\ remoteTimer' = FALSE
  /\ remoteWindIntensity' = JsMax(Num(0), JsSub(remoteWindIntensity, Num(RemoteDecay)))
  /\ UNCHANGED <<micWindIntensity, remoteRendered, micRendered, micInterval,
                 windIntensity, events, notWind>>

\* prev + (force - prev) * 0.1, the step rounded down
Smooth(prev, force) == Num(prev.v + (force - prev.v) \div 10)

\* The callback of the sampling interval with the average volume avg of the
\* analyser's byte frequency data (0..255).
MicSample(avg) ==
  /\ micInterval
  /\ IF avg > MicThreshold
     THEN LET force == IF avg - 30 < MicForceMax THEN avg - 30 ELSE MicForceMax
          IN  /\ events < MaxEvents
              /\ events' = events + 1
              /\ micWindIntensity' = Smooth(micWindIntensity, force)
     ELSE /\ micWindIntensity' = JsMax(Num(0), JsSub(micWindIntensity, Num(MicDecay)))
          /\ UNCHANGED events
  /\ UNCHANGED <<remoteWindIntensity, remoteRendered, micRendered, remoteTimer,
                 micInterval, windIntensity, notWind>>

\* The sum of the two scalars.
WindPropSum(mic, remote) == JsAdd(mic, remote)

\* windIntensity={Math.max(micWindIntensity, remoteWindIntensity)}
WindProp(mic, remote) == JsMax(mic, remote)

\* App re-renders with a changed wind scalar and passes the prop; the remote
\* decay effect (deps [remoteWindIntensity]) is cleaned up and run again
\* when its dependency changed.
AppRender ==
  /\ remoteWindIntensity # remoteRendered \/ micWindIntensity # micRendered
  /\ remoteRendered' = remoteWindIntensity
  /\ micRendered' = micWindIntensity
  /\ windIntensity' = WindProp(micWindIntensity, remoteWindIntensity)
  /\ remoteTimer' = IF remoteWindIntensity # remoteRendered
                    THEN JsGt(remoteWindIntensity, Num(0))
                    ELSE remoteTimer
  /\ UNCHANGED <<remoteWindIntensity, micWindIntensity, micInterval, events, notWind>>

MicAverages == {10, 110}

NextWind ==
  \/ \E data \in Messages : RemoteMessage(data)
  \/ RemoteDecayTimer
  \/ \E avg \in MicAverages : MicSample(avg)
  \/ AppRender

(***************************************************************************)
(* Particles (part_001 118-240).  Lengths and intensities are in           *)
(* hundredths, Math.random() draws in hundredths (0..99), sines and        *)
(* cosines in thousandths.  Frames run at whole seconds of the clock       *)
(* (FrameTimes: the second frame comes after a pause) and swirl offsets    *)
(* are whole radians, so the trigonometric values are tabulated at whole   *)
(* arguments.                                                              *)
(***************************************************************************)
GLOBE_RADIUS == 900
FloorY == -500                           \* particle.y < -5
MaxTicks == 2
count == 1

\* state.clock.getElapsedTime() of the frames, in seconds
FrameTimes == <<0, 5, 6, 7>>

\* round(1000 * sin(0.5 * t)) and round(1000 * cos(0.3 * t)), t = 0..8
SinHalf == <<0, 479, 841, 997, 909, 598, 141, -351, -757>>
CosThird == <<1000, 955, 825, 622, 362, 71, -227, -505, -737>>
\* round(1000 * cos(n)) and round(1000 * sin(n)), n = 0..12
CosInt == <<1000, 540, -416, -990, -654, 284, 960, 754, -146, -911, -839, 4, 844>>
SinInt == <<0, 841, 909, 141, -757, -959, -279, 657, 989, 412, -544, -1000, -537>>

Vec(x, y, z) == [x |-> x, y |-> y, z |-> z]
ZeroVec == Vec(Num(0), Num(0), Num(0))

\* An entry of the useMemo array: a point of the ball of radius GLOBE_RADIUS,
\* originalSpeed = 0.05 + random * 0.1, swirlOffset = random * 2 PI.
Particle(x, y, z, originalSpeed, swirlOffset) ==
  [x |-> Num(x), y |-> Num(y), z |-> Num(z), originalSpeed |-> originalSpeed,
   swirlOffset |-> swirlOffset, velocity |-> ZeroVec]

InitialParticles ==
  { Particle(0, -495, 0, 5, 3),
    Particle(840, -320, 0, 5, 0),
    Particle(899, 50, 0, 5, 0) }

\* x*x + y*y + z*z, in units of 1/10000
DistSq(x, y, z) == JsAdd(JsAdd(JsMul(x, x, 1), JsMul(y, y, 1)), JsMul(z, z, 1))

\* distSq > GLOBE_RADIUS * GLOBE_RADIUS
OutsideGlobe(p) == JsGt(DistSq(p.x, p.y, p.z), Num(GLOBE_RADIUS * GLOBE_RADIUS))

\* A reset condition that leaves out the radius.
NeedsResetFloorOnly(p) == JsLt(p.y, Num(FloorY))

\* A reset condition that leaves out the floor.
NeedsResetRadiusOnly(p) == OutsideGlobe(p) /\ JsLt(p.y, Num(0))

\* particle.y < -5 || (distSq > GLOBE_RADIUS * GLOBE_RADIUS && particle.y < 0)
NeedsReset(p) ==
  JsLt(p.y, Num(FloorY)) \/ (OutsideGlobe(p) /\ JsLt(p.y, Num(0)))

IsRain == condition \in {"Rain", "Thunderstorm"}

\* windX and windZ of the frame at time t
WindX(t) == JsMul(Num(SinHalf[t + 1]), particleWind, 5000)
WindZ(t) == JsMul(Num(CosThird[t + 1]), particleWind, 5000)

\* A velocity update without the drag.
NewVelocityNoDrag(p, t, rnd) ==
  LET imp(i) == JsMul(Num(rnd[i] - 50), particleShake, 200)
  IN  Vec(JsAdd(JsAdd(p.velocity.x, imp(1)), JsMul(WindX(t), Num(1), 2)),
          JsAdd(p.velocity.y, imp(2)),
          JsAdd(JsAdd(p.velocity.z, imp(3)), JsMul(WindZ(t), Num(1), 2)))

\* The velocity after the shake impulse, the wind push and the drag; rnd
\* holds the three Math.random() draws of the shake impulse.
NewVelocity(p, t, rnd) ==
  LET imp(i) == IF JsGt(particleShake, Num(0))
                THEN JsMul(Num(rnd[i] - 50), particleShake, 200)
                ELSE Num(0)
      windy == JsGt(particleWind, Num(10))
      vx == JsAdd(JsAdd(p.velocity.x, imp(1)),
                  IF windy THEN JsMul(WindX(t), Num(1), 2) ELSE Num(0))
      vy == JsAdd(p.velocity.y, imp(2))
      vz == JsAdd(JsAdd(p.velocity.z, imp(3)),
                  IF windy THEN JsMul(WindZ(t), Num(1), 2) ELSE Num(0))
  IN  Vec(JsMul(vx, Num(9), 10), JsMul(vy, Num(9), 10), JsMul(vz, Num(9), 10))

\* A frame that leaves the particle where it is.
MovedStill(p, t, rnd) == p

\* The particle after the fall, the velocity and the swirl, before the
\* bounds check.
Moved(p, t, rnd) ==
  LET v == NewVelocity(p, t, rnd)
      fallSpeed == IF IsRain THEN p.originalSpeed * 3 ELSE p.originalSpeed
      swirlStrength == JsAdd(Num(2), JsMul(particleShake, Num(1), 10))
      arg == t + p.swirlOffset + 1
  IN  [p EXCEPT !.velocity = v,
                !.y = JsSub(p.y, JsAdd(Num(fallSpeed), v.y)),
                !.x = JsAdd(JsAdd(p.x, v.x), JsMul(Num(CosInt[arg]), swirlStrength, 1000)),
                !.z = JsAdd(JsAdd(p.z, v.z), JsMul(Num(SinInt[arg]), swirlStrength, 1000))]

\* A wind that never counts as high.
HighWindNever == FALSE

\* windIntensity > 2
HighWind == JsGt(particleWind, Num(200))

\* A respawn at the centre of the floor that keeps the velocity.
RespawnAtFloor(p, t, rnd) == [p EXCEPT !.x = Num(0), !.y = Num(FloorY), !.z = Num(0)]

\* The respawn; rnd holds its three Math.random() draws.
Respawn(p, t, rnd) ==
  LET r == Num(((100 + rnd[1]) * 18) \div 5)          \* (0.5 + random * 0.5) * 9 * 0.8
      upwind == HighWind
  IN  [p EXCEPT !.y = JsAbs(r),
                !.x = IF upwind
                      THEN JsAdd(JsMul(WindX(t), Num(-50), 1), Num((rnd[2] - 50) * 5))
                      ELSE Num((rnd[2] - 50) * 9),
                !.z = IF upwind
                      THEN JsAdd(JsMul(WindZ(t), Num(-50), 1), Num((rnd[3] - 50) * 5))
                      ELSE Num((rnd[3] - 50) * 9),
                !.velocity = ZeroVec]

\* The body of particles.forEach for one particle.
StepParticle(p, t, draw) ==
  LET m == Moved(p, t, draw.shake)
  IN  IF NeedsReset(m) THEN Respawn(m, t, draw.reset) ELSE m

ShakeDraws == {<<0, 0, 0>>, <<99, 99, 99>>}
ResetDraws == {<<0, 0, 0>>, <<99, 0, 99>>}
Draws == [shake : ShakeDraws, reset : ResetDraws]

\* The props a render can pass: the shake scalar of WeatherScene, within its
\* clamp, and the wind of App, which takes whatever a peer sent.
Conditions == {"Clear", "Clouds", "Snow", "Rain"}
ShakeProps == {Num(0), Num(800)}
WindProps == {Num(0), Num(300), NaN}

\* The props are those of one render and are held over the frames of a
\* behaviour.
InitParticles ==
  /\ particles \in [1..count -> InitialParticles]
  /\ condition \in Conditions
  /\ particleShake \in ShakeProps
  /\ particleWind \in WindProps
  /\ clock = 0
  /\ lastTick = <<>>

\* A mesh that is mounted whatever the condition.
MeshAlways == TRUE

\* mesh.current: the component returns null for Clear and Clouds, so the
\* instancedMesh is mounted only under the other conditions.
MeshMounted == condition \notin {"Clear", "Clouds"}

\* The instances of the instancedMesh the render emits (args [.., .., count]).
Primitives == IF MeshMounted THEN count ELSE 0

\* A pool that drops the particles it would respawn.
PoolWithoutReset(ps, t, draw) ==
  SelectSeq([i \in 1..count |-> Moved(ps[i], t, draw[i].shake)],
            LAMBDA m : ~NeedsReset(m))

\* particles.forEach over the array of the useMemo
Pool(ps, t, draw) == [i \in DOMAIN ps |-> StepParticle(ps[i], t, draw[i])]

\* A render with another condition prop.
SetCondition(c) ==
  /\ c # condition
  /\ condition' = c
  /\ UNCHANGED <<particles, particleShake, particleWind, clock, lastTick, notParticles>>

\* The useFrame callback: if (!mesh.current) return, then the loop.
ParticleTick ==
  /\ clock < MaxTicks
  /\ clock' = clock + 1
  /\ IF ~MeshMounted
     THEN UNCHANGED <<particles, lastTick>>
     ELSE \E draw \in [1..count -> Draws] :
            /\ particles' = Pool(particles, FrameTimes[clock + 1], draw)
            /\ lastTick' = [i \in 1..count |->
                              LET m == Moved(particles[i], FrameTimes[clock + 1],
                                             draw[i].shake)
                              IN  [moved |-> m, reset |-> NeedsReset(m),
                                   t |-> FrameTimes[clock + 1]]]
  /\ UNCHANGED <<condition, particleShake, particleWind, notParticles>>

NextParticles ==
  \/ \E c \in Conditions : SetCondition(c)
  \/ ParticleTick

(***************************************************************************)
(* The frames of Particles without a bound on their number, for a held     *)
(* shake of 0 and a held wind of at most 0.1 under a precipitation         *)
(* condition.  The elapsed time enters the frame through cos and sin of    *)
(* t + swirlOffset only, so the clock runs round a cycle of times.  The    *)
(* loop handles each particle by itself, so the pool here holds one.       *)
(***************************************************************************)
FallTimes == <<0, 3, 6>>

\* A particle that carries velocity left from earlier forcing.
WithVelocity(p, vx, vy, vz) == [p EXCEPT !.velocity = Vec(Num(vx), Num(vy), Num(vz))]

FallParticles ==
  { Particle(0, 700, 0, 5, 0),
    WithVelocity(Particle(300, -400, -200, 15, 3), 40, -120, -40),
    WithVelocity(Particle(-880, 100, 0, 10, 1), -60, 80, 0) }

FallDraws == [shake : {<<0, 0, 0>>}, reset : ResetDraws]

InitFall ==
  /\ particles \in [{1} -> FallParticles]
  /\ condition \in {"Snow", "Rain"}
  /\ particleShake = Num(0)
  /\ particleWind \in {Num(0), Num(10)}
  /\ clock = 0
  /\ lastTick = <<>>

\* The useFrame callback with the mesh mounted.
FallFrame ==
  /\ clock' = (clock + 1) % Len(FallTimes)
  /\ \E draw \in [DOMAIN particles -> FallDraws] :
       /\ particles' = Pool(particles, FallTimes[clock + 1], draw)
       /\ lastTick' = [i \in DOMAIN particles |->
                         LET m == Moved(particles[i], FallTimes[clock + 1],
                                        draw[i].shake)
                         IN  [moved |-> m, reset |-> NeedsReset(m),
                              t |-> FallTimes[clock + 1]]]
  /\ UNCHANGED <<condition, particleShake, particleWind, notParticles>>

NextFall == FallFrame

(***************************************************************************)
(* The velocity of one particle over frames (part_001 160-177, 213): the   *)
(* shake impulse, the wind push and the drag of a frame depend on the      *)
(* velocity, the props, the time and the random draws only, and a respawn  *)
(* sets the velocity to zero.  The frames are not counted.                 *)
(***************************************************************************)
\* The shake and wind props at the ends of their clamp ranges and inside.
DragShakeProps == {Num(0), Num(800)}
DragWindProps == {Num(0), Num(1000)}
\* A frame's time and shake draws: the wind and the impulse either both push
\* up (sin(0.5 t) near 1, draws near 1) or both push down.
DragFrames == {[t |-> 3, rnd |-> <<99, 99, 99>>], [t |-> 8, rnd |-> <<0, 0, 0>>]}

InitDrag ==
  /\ particleVelocity = ZeroVec
  /\ particles = [i \in 1..count |-> Particle(0, 0, 0, 5, 0)]
  /\ condition = "Snow"
  /\ particleShake \in DragShakeProps
  /\ particleWind \in DragWindProps
  /\ clock = 0
  /\ lastTick = <<>>

\* The velocity part of one frame for the particle (160-177)
VelocityFrame(t, rnd) ==
  /\ particleVelocity' = NewVelocity([velocity |-> particleVelocity], t, rnd)
  /\ UNCHANGED notDrag

\* particle.velocity.set(0, 0, 0) of a respawn (213)
VelocityReset ==
  /\ particleVelocity # ZeroVec
  /\ particleVelocity' = ZeroVec
  /\ UNCHANGED notDrag

NextDrag ==
  \/ \E f \in DragFrames : VelocityFrame(f.t, f.rnd)
  \/ VelocityReset

(***************************************************************************)
(* App: the weather fetch effect (part_002 211-234) and fetchWeather       *)
(* (weatherService.ts 50-87).  A click on a city calls setCurrentCity in a *)
(* discrete event: React renders and runs the cleanup of the previous      *)
(* effect run and the new effect run before it returns to the event loop,  *)
(* so no promise continuation runs in between.                             *)
(***************************************************************************)
MaxFetches == 3

WeatherCities == {"London", "Tokyo", "Dubai"}
INITIAL_CITY == "London"
NoWeather == [city |-> "null"]
NoFetch == [city |-> "none", stored |-> FALSE]

\* fetchWeather resolves in every case, with the weather of the city or with
\* the fallback data; both carry city: cityName.
Response(city) == [city |-> city]

\* The effect run of the mount: setLoading(true) and getData() for
\* INITIAL_CITY.
InitWeather ==
  /\ currentCity = INITIAL_CITY
  /\ weather = NoWeather
  /\ loading = TRUE
  /\ fetches = <<[city |-> INITIAL_CITY, mounted |-> TRUE]>>
  /\ lastFetch = NoFetch

\* A continuation that stores its response whatever its flag.
MountedAlways(f) == TRUE

\* if (mounted)
Mounted(f) == f.mounted

\* handleCityChange(city) with another city: the render, the cleanup of the
\* effect run before (mounted = false) and the new effect run
\* (setLoading(true), getData()).
SelectCity(c) ==
  /\ c # currentCity
  /\ Len(fetches) < MaxFetches
  /\ currentCity' = c
  /\ loading' = TRUE
  /\ fetches' = Append([i \in DOMAIN fetches |-> [fetches[i] EXCEPT !.mounted = FALSE]],
                       [city |-> c, mounted |-> TRUE])
  /\ UNCHANGED <<weather, lastFetch, notWeather>>

\* The continuation of getData() after `await fetchWeather(...)` for the
\* i-th call in flight.
FetchDone(i) ==
  /\ i \in DOMAIN fetches
  /\ IF Mounted(fetches[i])
     THEN /\ weather' = Response(fetches[i].city)
          /\ loading' = FALSE
     ELSE UNCHANGED <<weather, loading>>
  /\ lastFetch' = [city |-> fetches[i].city, stored |-> Mounted(fetches[i])]
  /\ fetches' = [j \in 1..(Len(fetches) - 1) |->
                   IF j < i THEN fetches[j] ELSE fetches[j + 1]]
  /\ UNCHANGED <<currentCity, notWeather>>

NextWeather ==
  \/ \E c \in WeatherCities : SelectCity(c)
  \/ \E i \in 1..MaxFetches : FetchDone(i)

(***************************************************************************)
(* App: the microphone effect (part_002 342-394).  The toggle is a click:  *)
(* the render, the cleanup of the effect run before and the new effect run *)
(* are one step.  micInterval is TRUE while a sampling interval runs.      *)
(***************************************************************************)
MaxMicRequests == 2

\* the wind variables the microphone effect does not touch
windRest == <<remoteWindIntensity, remoteRendered, micRendered, remoteTimer,
              windIntensity, events>>

InitMic ==
  /\ isMicEnabled = FALSE
  /\ micRequests = 0
  /\ micGrants = 0
  /\ micStreamRef = 0
  /\ liveStreams = {}
  /\ micIntervalRef = 0
  /\ liveIntervals = {}

\* The cleanup of an effect run: if (micIntervalRef.current) clearInterval(...)
AfterCleanup(intervals) == intervals \ {micIntervalRef}

\* The effect run with isMicEnabled false: stop the tracks of the stream of
\* the ref and null the ref, clear the interval of the ref, set the scalar
\* to 0.  The cleanup of the run before has run first.
MicOff ==
  /\ liveStreams' = liveStreams \ {micStreamRef}
  /\ micStreamRef' = 0
  /\ liveIntervals' = AfterCleanup(liveIntervals)
  /\ micInterval' = (AfterCleanup(liveIntervals) # {})
  /\ micWindIntensity' = Num(0)
  /\ UNCHANGED micIntervalRef

\* The button: setIsMicEnabled(!isMicEnabled), then the cleanup and the
\* effect.  With the microphone enabled the effect calls getUserMedia.
ToggleMic ==
  /\ isMicEnabled' = ~isMicEnabled
  /\ IF ~isMicEnabled
     THEN /\ micGrants < MaxMicRequests
          /\ micGrants' = micGrants + 1
          /\ micRequests' = micRequests + 1
          /\ liveIntervals' = AfterCleanup(liveIntervals)
          /\ micInterval' = (AfterCleanup(liveIntervals) # {})
          /\ UNCHANGED <<micStreamRef, liveStreams, micIntervalRef, micWindIntensity>>
     ELSE /\ MicOff
          /\ UNCHANGED <<micGrants, micRequests>>
  /\ UNCHANGED <<windRest, notMic>>

\* .then((stream) => { ... }): the stream and a new interval go to the refs.
\* The callback does not read isMicEnabled.
MicGranted ==
  /\ micRequests > 0
  /\ micRequests' = micRequests - 1
  /\ LET id == micGrants + 1 - micRequests
     IN  /\ micStreamRef' = id
         /\ liveStreams' = liveStreams \cup {id}
         /\ micIntervalRef' = id
         /\ liveIntervals' = liveIntervals \cup {id}
  /\ micInterval' = TRUE
  /\ UNCHANGED <<isMicEnabled, micGrants, micWindIntensity, windRest, notMic>>

\* .catch(e => { setIsMicEnabled(false) }): with the state already false
\* nothing renders; otherwise the cleanup and the effect run.
MicDenied ==
  /\ micRequests > 0
  /\ micRequests' = micRequests - 1
  /\ IF isMicEnabled
     THEN /\ isMicEnabled' = FALSE
          /\ MicOff
     ELSE UNCHANGED <<isMicEnabled, micStreamRef, liveStreams, micIntervalRef,
                      liveIntervals, micInterval, micWindIntensity>>
  /\ UNCHANGED <<micGrants, windRest, notMic>>

\* The callback of a sampling interval that has not been cleared, with the
\* average volume avg.
MicTick(avg) ==
  /\ liveIntervals # {}
  /\ micWindIntensity' =
       IF avg > MicThreshold
       THEN Smooth(micWindIntensity,
                   IF avg - 30 < MicForceMax THEN avg - 30 ELSE MicForceMax)
       ELSE JsMax(Num(0), JsSub(micWindIntensity, Num(MicDecay)))
  /\ UNCHANGED <<micVars, micInterval, windRest, notMic>>

NextMic ==
  \/ ToggleMic
  \/ MicGranted
  \/ MicDenied
  \/ \E avg \in MicAverages : MicTick(avg)

(***************************************************************************)
(* Interface: the city search box (Interface.tsx 218-249) and searchCities *)
(* (weatherService.ts 89-112).  Texts are sequences of characters.         *)
(***************************************************************************)
MaxKeystrokes == 4
MinQueryLength == 2                      \* val.length < 2
NoTimer == <<"none">>

Queries == {<<>>, <<"l">>, <<"l", "o">>, <<"l", "o", "n">>, <<"z", "q">>}

\* searchCities(query): [] for a short query, else the names of
\* data.results, [] when the response has none.
GeocodeNothing(query) == <<>>
Geocode(query) ==
  IF Len(query) < MinQueryLength THEN <<>>
  ELSE IF query = <<"l", "o">> THEN <<"Lome", "London">>
  ELSE IF query = <<"l", "o", "n">> THEN <<"London">>
  ELSE <<>>

InitSearch ==
  /\ searchQuery = <<>>
  /\ searchResults = <<>>
  /\ isSearching = FALSE
  /\ searchTimeout = NoTimer
  /\ inFlight = {}
  /\ keystrokes = 0

\* handleSearchChange with e.target.value = val
HandleSearchChange(val) ==
  /\ keystrokes < MaxKeystrokes
  /\ val # searchQuery
  /\ keystrokes' = keystrokes + 1
  /\ searchQuery' = val
  /\ IF Len(val) < MinQueryLength
     THEN /\ searchTimeout' = NoTimer
          /\ searchResults' = <<>>
          /\ UNCHANGED isSearching
     ELSE /\ isSearching' = TRUE
          /\ searchTimeout' = val
          /\ UNCHANGED searchResults
  /\ UNCHANGED <<inFlight, notSearch>>

\* The debounce timeout fires after 500 ms: searchCities(val) is called.
SearchTimeoutFires ==
  /\ searchTimeout # NoTimer
  /\ inFlight' = inFlight \cup {[id |-> keystrokes, query |-> searchTimeout]}
  /\ searchTimeout' = NoTimer
  /\ UNCHANGED <<searchQuery, searchResults, isSearching, keystrokes, notSearch>>

Requests == [id : 1..MaxKeystrokes, query : Queries]

\* The continuation after await searchCities(val)
SearchReturns(r) ==
  /\ r \in inFlight
  /\ inFlight' = inFlight \ {r}
  /\ searchResults' = Geocode(r.query)
  /\ isSearching' = FALSE
  /\ UNCHANGED <<searchQuery, searchTimeout, keystrokes, notSearch>>

NextSearch ==
  \/ \E val \in Queries : HandleSearchChange(val)
  \/ SearchTimeoutFires
  \/ \E r \in Requests : SearchReturns(r)

(***************************************************************************)
(* Interface: the gift recorder (Interface.tsx 224-230, 258-306, 487-489). *)
(* The button is a click: the render and the timer effect (deps            *)
(* [isRecording, mediaRecorder]) run in the same step, so the interval     *)
(* callback calls the stopRecording that closes over the new recorder.     *)
(***************************************************************************)
MAX_RECORDING_TIME == 10
MaxRecordings == 2
MaxIntervalTicks == 12

InitRecorder ==
  /\ isRecording = FALSE
  /\ recordingTime = 0
  /\ videoUrl = FALSE
  /\ recorderState = "none"
  /\ onstopQueued = FALSE
  /\ recordingInterval = FALSE
  /\ intervalTicks = 0
  /\ recordings = 0
  /\ stoppedByHand = FALSE

\* startRecording, from the button while isRecording is false
StartRecording ==
  /\ ~isRecording
  /\ ~videoUrl
  /\ recordings < MaxRecordings
  /\ recordings' = recordings + 1
  /\ recorderState' = "recording"
  /\ isRecording' = TRUE
  /\ recordingTime' = 0
  /\ recordingInterval' = TRUE
  /\ intervalTicks' = 0
  /\ stoppedByHand' = FALSE
  /\ UNCHANGED <<videoUrl, onstopQueued, notRecorder>>

\* stopRecording: mediaRecorder.stop() unless it is inactive
StopRequested == recorderState = "recording"

\* if (prev >= MAX_RECORDING_TIME)
ReachedMax(prev) == prev >= MAX_RECORDING_TIME

\* The interval callback, every 1000 ms:
\* setRecordingTime(prev => { if (prev >= MAX) { stopRecording(); return prev; }
\*                            return prev + 1; })
RecordingTick ==
  /\ recordingInterval
  /\ intervalTicks < MaxIntervalTicks
  /\ intervalTicks' = intervalTicks + 1
  /\ IF ReachedMax(recordingTime)
     THEN /\ recorderState' = "inactive"
          /\ onstopQueued' = (onstopQueued \/ StopRequested)
          /\ UNCHANGED recordingTime
     ELSE /\ recordingTime' = recordingTime + 1
          /\ UNCHANGED <<recorderState, onstopQueued>>
  /\ UNCHANGED <<isRecording, videoUrl, recordingInterval, recordings, stoppedByHand,
                 notRecorder>>

\* stopRecording, from the button while isRecording is true
StopByHand ==
  /\ isRecording
  /\ recorderState' = "inactive"
  /\ onstopQueued' = (onstopQueued \/ StopRequested)
  /\ stoppedByHand' = TRUE
  /\ UNCHANGED <<isRecording, recordingTime, videoUrl, recordingInterval, intervalTicks,
                 recordings, notRecorder>>

\* recorder.onstop: setVideoUrl(url); setIsRecording(false); the render
\* cleans the timer effect up (clearInterval).
RecorderOnStop ==
  /\ onstopQueued
  /\ onstopQueued' = FALSE
  /\ videoUrl' = TRUE
  /\ isRecording' = FALSE
  /\ recordingInterval' = FALSE
  /\ UNCHANGED <<recordingTime, recorderState, intervalTicks, recordings, stoppedByHand,
                 notRecorder>>

\* GiftModal onClose, and the end of downloadVideo: setVideoUrl(null)
CloseGift ==
  /\ videoUrl
  /\ videoUrl' = FALSE
  /\ UNCHANGED <<isRecording, recordingTime, recorderState, onstopQueued,
                 recordingInterval, intervalTicks, recordings, stoppedByHand, notRecorder>>

NextRecorder ==
  \/ StartRecording
  \/ RecordingTick
  \/ StopByHand
  \/ RecorderOnStop
  \/ CloseGift

(***************************************************************************)
(* Specifications.  Each one runs one component; the others stay as they   *)
(* are before their first event.                                           *)
(***************************************************************************)
IdleCity ==
  /\ cityName = "London"
  /\ isDay = TRUE
  /\ seed = 0
  /\ layout = [buildings |-> <<>>, terrain |-> <<>>, props |-> <<>>,
               presenceLights |-> <<>>]
  /\ cells = <<>>
  /\ genLog = [c \in Cities |-> <<>>]
  /\ renderError = FALSE
  /\ displayed = [buildings |-> <<>>, terrain |-> <<>>, props |-> <<>>]

IdleTilt ==
  /\ remoteOrientation = Orientation(Num(0), Num(0))
  /\ controller = "none"
  /\ rotation = [x |-> Num(0), z |-> Num(0)]
  /\ frames = 0

IdleShake == InitShake

IdleWind ==
  /\ remoteWindIntensity = Num(0)
  /\ micWindIntensity = Num(0)
  /\ remoteRendered = Num(0)
  /\ micRendered = Num(0)
  /\ remoteTimer = FALSE
  /\ micInterval = FALSE
  /\ windIntensity = Num(0)
  /\ events = 0

IdleParticles ==
  /\ particles = [i \in 1..count |-> Particle(0, 0, 0, 5, 0)]
  /\ condition = "Clear"
  /\ particleShake = Num(0)
  /\ particleWind = Num(0)
  /\ clock = 0
  /\ lastTick = <<>>

IdleDrag == particleVelocity = ZeroVec

IdleWeather == InitWeather

IdleMic == InitMic

IdleSearch == InitSearch

IdleRecorder == InitRecorder

InitCitySpec == InitCity /\ IdleTilt /\ IdleShake /\ IdleWind /\ IdleParticles /\ IdleDrag /\ IdleWeather /\ IdleMic /\ IdleSearch /\ IdleRecorder
SpecCity == InitCitySpec /\ [][NextCity]_vars

InitTiltSpec == InitTilt /\ IdleCity /\ IdleShake /\ IdleWind /\ IdleParticles /\ IdleDrag /\ IdleWeather /\ IdleMic /\ IdleSearch /\ IdleRecorder
SpecTilt == InitTiltSpec /\ [][NextTilt]_vars

InitShakeSpec == InitShake /\ IdleCity /\ IdleTilt /\ IdleWind /\ IdleParticles /\ IdleDrag /\ IdleWeather /\ IdleMic /\ IdleSearch /\ IdleRecorder
SpecShake == InitShakeSpec /\ [][NextShake]_vars

InitWindSpec == InitWind /\ IdleCity /\ IdleTilt /\ IdleShake /\ IdleParticles /\ IdleDrag /\ IdleWeather /\ IdleMic /\ IdleSearch /\ IdleRecorder
SpecWind == InitWindSpec /\ [][NextWind]_vars

InitParticlesSpec == InitParticles /\ IdleCity /\ IdleTilt /\ IdleShake /\ IdleWind /\ IdleDrag /\ IdleWeather /\ IdleMic /\ IdleSearch /\ IdleRecorder
SpecParticles == InitParticlesSpec /\ [][NextParticles]_vars

InitFallSpec == InitFall /\ IdleCity /\ IdleTilt /\ IdleShake /\ IdleWind /\ IdleDrag /\ IdleWeather /\ IdleMic /\ IdleSearch /\ IdleRecorder

\* The render loop calls the useFrame callback at every animation frame: the
\* clock does not stop.  Every step of NextFall is a frame and moves the
\* clock, so this is weak fairness of FallFrame.
FrameRuns == clock' = (clock + 1) % Len(FallTimes)
SpecFall == InitFallSpec /\ [][NextFall]_vars /\ WF_clock(FrameRuns)

InitDragSpec == InitDrag /\ IdleCity /\ IdleTilt /\ IdleShake /\ IdleWind /\ IdleWeather /\ IdleMic /\ IdleSearch /\ IdleRecorder
SpecDrag == InitDragSpec /\ [][NextDrag]_vars

InitWeatherSpec == InitWeather /\ IdleCity /\ IdleTilt /\ IdleShake /\ IdleWind /\ IdleParticles /\ IdleDrag /\ IdleMic /\ IdleSearch /\ IdleRecorder
SpecWeather == InitWeatherSpec /\ [][NextWeather]_vars

InitMicSpec == InitMic /\ IdleWind /\ IdleCity /\ IdleTilt /\ IdleShake /\ IdleParticles /\ IdleDrag /\ IdleWeather /\ IdleSearch /\ IdleRecorder
SpecMic == InitMicSpec /\ [][NextMic]_vars

InitSearchSpec == InitSearch /\ IdleWind /\ IdleCity /\ IdleTilt /\ IdleShake /\ IdleParticles /\ IdleDrag /\ IdleWeather /\ IdleMic /\ IdleRecorder
SpecSearch == InitSearchSpec /\ [][NextSearch]_vars

InitRecorderSpec == InitRecorder /\ IdleWind /\ IdleCity /\ IdleTilt /\ IdleShake /\ IdleParticles /\ IdleDrag /\ IdleWeather /\ IdleMic /\ IdleSearch
SpecRecorder == InitRecorderSpec /\ [][NextRecorder]_vars

InClampRange(a) == a.k = "num" /\ -QuarterPi <= a.v /\ a.v <= QuarterPi

C4_RotationClamped == InClampRange(rotation.x) /\ InClampRange(rotation.z)

\* Frames have run under an extreme tilt and the rotation has followed it.
C4_Witness ==
  /\ frames >= 3
  /\ remoteOrientation = Orientation(Num(1000), Num(-1000))
  /\ rotation.x.v > 200000
  /\ rotation.z.v > 200000


\* C5: with no new forcing events the shake scalar never increases: it
\* decays step by step and, once zero, stays zero.  The code does not keep
\* this: a quiet ShakeDetector frame reports its own decayed velocity, which
\* exceeds the decayed scalar and is stored.
C5_QuietNeverRaises ==
  [][QuietShakeStep => ~JsGt(shakeIntensity', shakeIntensity)]_vars

C8_ReportNeverLowers ==
  [][ShakeReport => ~JsLt(shakeIntensity', shakeIntensity)]_vars


\* C7: the remote wind scalar never exceeds its clamp maximum of 10.  The
\* code does not keep this: a 'wind' message is stored as it comes, and
\* MobileController sends intensities up to (255 - 30) / 10.
C7_RemoteClamped ==
  ~JsGt(remoteWindIntensity, Num(RemoteMax))

\* C9: the windIntensity prop of a render is the larger of the microphone
\* and the remote wind scalar of that render (NaN when either is NaN, as
\* Math.max has it), never their sum.
C9_WindIsMax ==
  LET m == ToNumber(micRendered)
      r == ToNumber(remoteRendered)
  IN  IF IsNaN(m) \/ IsNaN(r)
      THEN IsNaN(windIntensity)
      ELSE /\ windIntensity \in {m, r}
           /\ ~NumLess(windIntensity, m)
           /\ ~NumLess(windIntensity, r)

\* C9 witness: a render with both scalars positive, the remote one larger.
C9_Witness ==
  /\ micRendered.k = "num" /\ micRendered.v > 0
  /\ remoteRendered.k = "num" /\ remoteRendered.v > micRendered.v
  /\ windIntensity = remoteRendered

FiniteNonNegative(a) == a.k = "num" /\ a.v >= 0

\* C10: the stored wind scalars and the wind value the particle tick reads
\* are finite and not negative whatever intensities the events carried.  The
\* code does not keep this: the handler stores data.intensity unchecked.
C10_ForcingFinite ==
  /\ FiniteNonNegative(remoteWindIntensity)
  /\ FiniteNonNegative(micWindIntensity)
  /\ FiniteNonNegative(windIntensity)


Respawned(p) ==
  /\ p.velocity = ZeroVec
  /\ p.y.k = "num" /\ p.y.v >= 360 /\ p.y.v <= 720

C3_AboveFloor ==
  \A i \in DOMAIN lastTick :
    particles[i].y.k = "num" /\ particles[i].y.v >= FloorY

\* C3 witness: a particle fell below the floor and the frame respawned it.
C3_Witness ==
  \E i \in DOMAIN lastTick :
    /\ JsLt(lastTick[i].moved.y, Num(FloorY))
    /\ ~OutsideGlobe(lastTick[i].moved)
    /\ Respawned(particles[i])


\* C11: while the condition is Clear or Clouds the render emits no particle
\* primitive and a frame changes no particle, whatever the shake and wind
\* props.
C11_ClearIdle ==
  [][(condition \in {"Clear", "Clouds"} /\ condition' = condition)
       => (Primitives = 0 /\ particles' = particles)]_vars

\* C11 witness: every frame so far ran under Clear with shake and wind
\* applied, and none ran the loop.
C11_Witness ==
  /\ condition = "Clear"
  /\ clock = MaxTicks
  /\ lastTick = <<>>
  /\ particleShake = Num(800)
  /\ particleWind = Num(300)
  /\ Primitives = 0


\* a lies on the side opposite to the wind component w
OppositeSide(a, w) ==
  /\ JsGt(w, Num(0)) => JsLt(a, Num(0))
  /\ JsLt(w, Num(0)) => JsGt(a, Num(0))

\* a is the upwind point -50 * w moved by less than 2.5 (the value of
\* -50 * w itself when that is not finite)
NearUpwind(a, w) ==
  LET c == JsMul(w, Num(-50), 1)
  IN  IF c.k = "num"
      THEN a.k = "num" /\ a.v - c.v >= -250 /\ a.v - c.v < 250
      ELSE a = c

\* C12 as stated: with the wind above 2 a respawned particle has x on the
\* side opposite to windX and z on the side opposite to windZ.
C12_OppositeSign ==
  \A i \in DOMAIN lastTick :
    (lastTick[i].reset /\ JsGt(particleWind, Num(200)))
      => /\ OppositeSide(particles[i].x, WindX(lastTick[i].t))
         /\ OppositeSide(particles[i].z, WindZ(lastTick[i].t))

\* C12 amended: with the wind above 2 a respawned particle is placed within
\* 2.5 of the upwind point (-50 * windX, -50 * windZ), not in the centred
\* range of low wind.
C12_NearUpwind ==
  \A i \in DOMAIN lastTick :
    (lastTick[i].reset /\ JsGt(particleWind, Num(200)))
      => /\ NearUpwind(particles[i].x, WindX(lastTick[i].t))
         /\ NearUpwind(particles[i].z, WindZ(lastTick[i].t))

\* C12 witness: a respawn under high wind at a time when the wind blows
\* along both axes, the particle upwind on x.
C12_Witness ==
  \E i \in DOMAIN lastTick :
    /\ lastTick[i].reset
    /\ particleWind = Num(300)
    /\ JsGt(WindX(lastTick[i].t), Num(0))
    /\ JsGt(WindZ(lastTick[i].t), Num(0))
    /\ JsLt(particles[i].x, Num(-1000))


\* C13: the pool holds count particles from creation onward; no frame,
\* respawn or change of condition adds or removes one, and a step only
\* overwrites fields of the records: originalSpeed and swirlOffset stay.
C13_PoolFixed ==
  [][/\ Len(particles) = count
     /\ Len(particles') = count
     /\ \A i \in 1..count :
          /\ DOMAIN particles'[i] = DOMAIN particles[i]
          /\ particles'[i].originalSpeed = particles[i].originalSpeed
          /\ particles'[i].swirlOffset = particles[i].swirlOffset]_vars

\* C13 witness: the last frame respawned a particle under shake and the
\* pool still holds count particles.
C13_Witness ==
  /\ Len(particles) = count
  /\ particleShake = Num(800)
  /\ clock = MaxTicks
  /\ \E i \in DOMAIN lastTick : lastTick[i].reset /\ Respawned(particles[i])


\* the centred range of low wind: (Math.random() - 0.5) * GLOBE_RADIUS
Centred(a) == a.k = "num" /\ 2 * a.v >= -GLOBE_RADIUS /\ 2 * a.v < GLOBE_RADIUS

\* C20 as stated: right after a respawn the velocity is zero, the height is
\* within [0.4 R, 0.8 R] and the position is inside the containment sphere,
\* for every wind.
C20_RespawnInside ==
  \A i \in DOMAIN lastTick :
    lastTick[i].reset
      => (Respawned(particles[i]) /\ ~OutsideGlobe(particles[i]))

\* C20 amended: right after a respawn the velocity is zero and the height is
\* within [0.4 R, 0.8 R]; with the wind not above 2, x and z are each
\* within [-R/2, R/2), which keeps the horizontal distance below R but not
\* the particle inside the sphere.
C20_RespawnBand ==
  \A i \in DOMAIN lastTick :
    lastTick[i].reset
      => /\ Respawned(particles[i])
         /\ ~HighWind => (Centred(particles[i].x) /\ Centred(particles[i].z))

\* C20 witness: a respawn at low wind into a corner of the centred square,
\* outside the sphere.
C20_Witness ==
  \E i \in DOMAIN lastTick :
    /\ lastTick[i].reset
    /\ ~HighWind
    /\ Respawned(particles[i])
    /\ Centred(particles[i].x)
    /\ OutsideGlobe(particles[i])


ProfileFields == {"palette", "waterBias", "layout", "heightScale", "roadColor"}

\* C14: for every city name the style is the registered profile or the
\* default one, it has the profile fields, and the pass does not fail.  The
\* code does not keep this: a name that is a member of Object.prototype
\* resolves to that member, and the pass throws.
C14_StyleTotal ==
  /\ ~renderError
  /\ ProfileFields \subseteq DOMAIN StyleOf(cityName)
  /\ StyleOf(cityName) =
       (IF cityName \in DOMAIN CITY_STYLES THEN CITY_STYLES[cityName]
        ELSE DEFAULT_STYLE)


\* the cells of the grid the disc carve retains
Retained == {c \in (-half..half - 1) \X (-half..half - 1) :
               c[1] * c[1] + c[2] * c[2] <= (half - 1) * (half - 1)}

CellsOfKind(kinds) == {i \in DOMAIN cells : cells[i].kind \in kinds}

\* C15: a pass classifies every retained cell once, as water, park, road or
\* building, and pushes one terrain tile for a water, park or road cell and
\* one building for a building cell, so terrain plus buildings count the
\* retained cells.
C15_OneClassPerCell ==
  cells # <<>> =>
    /\ {<<cells[i].x, cells[i].z>> : i \in DOMAIN cells} = Retained
    /\ Len(cells) = Cardinality(Retained)
    /\ \A i \in DOMAIN cells : cells[i].kind \in {"water", "park", "road", "building"}
    /\ Len(layout.terrain) = Cardinality(CellsOfKind({"water", "park", "road"}))
    /\ Len(layout.buildings) = Cardinality(CellsOfKind({"building"}))
    /\ Len(layout.terrain) + Len(layout.buildings) = Cardinality(Retained)

\* C15 witness: a pass that met all four classes.
C15_Witness ==
  /\ cells # <<>>
  /\ \A k \in {"water", "park", "road", "building"} : CellsOfKind({k}) # {}
  /\ Len(layout.terrain) + Len(layout.buildings) = Len(cells)

\* the cell a base primitive stands on lies in the disc
OnDisc(m) ==
  /\ m.px % (blockSize + gap) = 0
  /\ m.pz % (blockSize + gap) = 0
  /\ LET x == m.px \div (blockSize + gap)
         z == m.pz \div (blockSize + gap)
     IN  x * x + z * z <= 8 * 8

\* C16: every cell a pass emits a primitive for has integer coordinates
\* with sqrt(x*x + z*z) <= 8.
C16_InsideDisc ==
  /\ \A i \in DOMAIN cells : cells[i].x * cells[i].x + cells[i].z * cells[i].z <= 8 * 8
  /\ \A i \in DOMAIN layout.terrain : OnDisc(layout.terrain[i].matrix)
  /\ \A i \in DOMAIN layout.buildings : OnDisc(layout.buildings[i].matrix)

\* C16 witness: a pass emitted a base primitive on the rim, at (-8, 0), and
\* one at the centre.
C16_Witness ==
  /\ \E i \in DOMAIN cells : cells[i].x = -8 /\ cells[i].z = 0
  /\ \E i \in DOMAIN cells : cells[i].x = 0 /\ cells[i].z = 0

\* C18: the pass for London yields at least one building and at least one
\* water cell.
C18_LondonHasWater ==
  (cityName = "London" /\ cells # <<>>) =>
    /\ Len(layout.buildings) > 0
    /\ CellsOfKind({"water"}) # {}

\* C18 witness: London generated, with water tiles among the terrain.
C18_Witness ==
  /\ cityName = "London"
  /\ Len(layout.buildings) > 0
  /\ \E i \in DOMAIN layout.terrain : layout.terrain[i].color = "#bfdbfe"


\* the distance of an angle from a target, in millionths of a radian
Gap(a, target) == IF a.v >= target.v THEN a.v - target.v ELSE target.v - a.v

\* the angle a went one step of the given least size toward the target
\* without passing it
Approaches(a, b, target) ==
  /\ b.k = "num"
  /\ Gap(b, target) <= Gap(a, target)
  /\ Gap(a, target) >= 100 => 100 * Gap(b, target) <= 96 * Gap(a, target)
  /\ (a.v <= target.v) => (b.v <= target.v)
  /\ (a.v >= target.v) => (b.v >= target.v)

\* C17: a frame that runs while no controller is connected (none connected
\* yet, or the connection has closed) blends both angles toward zero at
\* rate 0.05.
C17_NoSignalReturns ==
  [][(TiltFrame /\ controller # "open") =>
       /\ rotation'.x = lerp(rotation.x, Num(0), 5, 100)
       /\ rotation'.z = lerp(rotation.z, Num(0), 5, 100)]_vars

\* C19: a frame with a tilt signal moves rotation.x toward
\* clamp(rad(beta)) and rotation.z toward -clamp(rad(gamma)), each by a
\* tenth of its distance, without passing the target.
C19_TowardTarget ==
  [][(TiltFrame /\ remoteOrientation.present) =>
       /\ Approaches(rotation.x, rotation'.x,
                      clamp(degToRad(OrZero(remoteOrientation.beta)),
                            Num(-QuarterPi), Num(QuarterPi)))
       /\ Approaches(rotation.z, rotation'.z,
                      JsNeg(clamp(degToRad(OrZero(remoteOrientation.gamma)),
                                  Num(-QuarterPi), Num(QuarterPi))))]_vars

\* C19 witness: under the signal (20, -30) degrees frames have turned x
\* positive and z positive, over a quarter of the way to the target.
C19_Witness ==
  /\ remoteOrientation = Orientation(Num(20), Num(-30))
  /\ frames >= 3
  /\ rotation.x.v > 87000 /\ rotation.x.v < 349066
  /\ rotation.z.v > 130000 /\ rotation.z.v < 523599


\* the largest impulse a frame adds on an axis, in hundredths: 0.25 times
\* the shake, plus 0.1 times the wind on the x and z axes when the wind
\* pushes
ShakeImpulse == particleShake.v \div 4
WindImpulse == IF particleWind.v > 10 THEN particleWind.v \div 10 ELSE 0

Within(a, bound) == a.k = "num" /\ a.v <= bound /\ -a.v <= bound

\* C21: with the shake at most 8 and the wind at most 10, after any number
\* of frames each velocity component is at most 9 times the largest
\* impulse a frame adds on its axis.
C21_VelocityBounded ==
  /\ Within(particleVelocity.x, 9 * (ShakeImpulse + WindImpulse))
  /\ Within(particleVelocity.y, 9 * ShakeImpulse)
  /\ Within(particleVelocity.z, 9 * (ShakeImpulse + WindImpulse))

\* C21 witness: under shake 8 and wind 10 the x velocity has built up to
\* more than 8 times the largest impulse.
C21_Witness ==
  /\ particleShake = Num(800) /\ particleWind = Num(1000)
  /\ -particleVelocity.x.v > 8 * (ShakeImpulse + WindImpulse)


\* the kinds of prop a road branch sets up
IsLamp(p) == p.isLight
IsTaxi(p) == p.color = "#fbbf24" /\ ~p.isLight
IsBus(p) == p.color = "#dc2626"

\* the props of a pass that stand on cell c: a vehicle at its centre or a
\* lamp at its corner
PropsOn(pass, c) ==
  {i \in DOMAIN pass.layout.props :
     LET p == pass.layout.props[i]
         cx == c.x * (blockSize + gap)
         cz == c.z * (blockSize + gap)
     IN  \/ IsLamp(p) /\ p.matrix.px = cx + 300 /\ p.matrix.pz = cz + 300
         \/ (IsTaxi(p) \/ IsBus(p)) /\ p.matrix.px = cx /\ p.matrix.pz = cz}

RoadCellsOf(pass) == {i \in DOMAIN pass.cells : pass.cells[i].kind = "road"}

RoadPropsOk(name, pass) ==
  /\ \A i \in RoadCellsOf(pass) : Cardinality(PropsOn(pass, pass.cells[i])) <= 1
  /\ \A i \in DOMAIN pass.layout.props :
       LET p == pass.layout.props[i]
       IN  /\ IsTaxi(p) => Flag(StyleOf(name), "hasYellowTaxis")
           /\ IsBus(p) => Flag(StyleOf(name), "hasRedBuses")
           /\ (IsLamp(p) \/ IsTaxi(p) \/ IsBus(p)) =>
                \E j \in RoadCellsOf(pass) : i \in PropsOn(pass, pass.cells[j])

\* C22: in the stored pass a road cell carries at most one prop, so never a
\* lamp and a vehicle; every lamp, taxi and bus stands on a road cell; a
\* taxi appears only in a style with yellow taxis and a bus only in a
\* style with red buses.
C22_OnePropPerRoad ==
  (~renderError /\ cells # <<>>) =>
    RoadPropsOk(cityName, [layout |-> layout, cells |-> cells])

HasProp(c, Kind(_)) ==
  /\ genLog[c] # <<>>
  /\ \E i \in DOMAIN genLog[c][1].layout.props : Kind(genLog[c][1].layout.props[i])

\* C22 witness: New York was generated with lamps and taxis on its roads,
\* London with lamps and buses, and both have road cells without a prop.
C22_Witness ==
  /\ HasProp("New York", IsLamp) /\ HasProp("New York", IsTaxi)
  /\ HasProp("London", IsLamp) /\ HasProp("London", IsBus)
  /\ \E i \in RoadCellsOf(genLog["London"][1]) :
       PropsOn(genLog["London"][1], genLog["London"][1].cells[i]) = {}


\* the sub-rectangle of the central-park override
InCentralPark(c) == c.x > -2 /\ c.x < 2 /\ c.z > -4 /\ c.z < 4

\* C23: in the stored pass of a style with the central-park feature every
\* retained cell with -2 < x < 2 and -4 < z < 4 is classified park, as the
\* forced noise 1.5 makes it.
C23_CentralParkIsPark ==
  (~renderError /\ Flag(StyleOf(cityName), "centralPark")) =>
    \A i \in DOMAIN cells : InCentralPark(cells[i]) => cells[i].kind = "park"


\* every displayed colour is the stored base colour, unscaled
ShowsBase(shown, lay) ==
  /\ shown.buildings = [i \in DOMAIN lay.buildings |->
                          [base |-> lay.buildings[i].color, scale |-> 100]]
  /\ shown.terrain = [i \in DOMAIN lay.terrain |->
                        [base |-> lay.terrain[i].color, scale |-> 100]]
  /\ shown.props = [i \in DOMAIN lay.props |->
                      [base |-> lay.props[i].color, scale |-> 100]]

\* C24: a change of the day flag runs no generation pass and leaves the
\* stored collections as they are, and the change back to day shows every
\* stored base colour again; once created, the collections change only in
\* a step that changes the city name.
C24_DayFlagKeepsLayout ==
  [][/\ (isDay' # isDay) =>
          /\ layout' = layout /\ cells' = cells /\ seed' = seed /\ genLog' = genLog
          /\ isDay' => ShowsBase(displayed', layout)
     /\ (layout' # layout /\ cells # <<>>) => cityName' # cityName]_vars

\* C24 witness: a generated city is shown at night, every building at a
\* quarter of its stored colour.
C24_Witness ==
  /\ ~isDay /\ layout.buildings # <<>>
  /\ \A i \in DOMAIN layout.buildings :
       displayed.buildings[i] = [base |-> layout.buildings[i].color, scale |-> 25]
  /\ \E i \in DOMAIN layout.props : displayed.props[i].base = "#fff7ed"


\* C25: with the shake at 0 and the wind at most 0.1 held under snow or
\* rain, every particle is respawned again and again.
C25_RespawnedForever ==
  []<>(lastTick # <<>> /\ \A i \in DOMAIN lastTick : lastTick[i].reset)

\* C25 witness: a frame has just respawned a particle that fell through the
\* floor with no velocity left.
C25_Witness ==
  \E i \in DOMAIN lastTick :
    /\ lastTick[i].reset
    /\ lastTick[i].moved.y.v < FloorY
    /\ lastTick[i].moved.velocity = ZeroVec
    /\ Respawned(particles[i])

\* C26: a response is stored only if it is for the city selected at that
\* time, and whenever loading is false after a step the stored weather is
\* the response for the selected city.
C26_WeatherIsCurrent ==
  [][/\ (weather' # weather) => weather' = Response(currentCity')
     /\ ~loading' => weather' = Response(currentCity')]_vars

\* C26 witness: the response for an earlier city arrived after another city
\* was selected and was not stored; the selected city's weather is shown.
C26_Witness ==
  /\ lastFetch # NoFetch /\ ~lastFetch.stored /\ lastFetch.city # currentCity
  /\ ~loading /\ weather = Response(currentCity)

\* C27: while the microphone is disabled no sampling interval runs, no
\* captured stream is live and the microphone wind scalar is zero.
C27_DisabledMicIsOff ==
  ~isMicEnabled =>
    /\ liveIntervals = {}
    /\ liveStreams = {}
    /\ micWindIntensity = Num(0)

\* A step in which the timeout of the remote wind decay effect fires: the
\* timer goes without a render.
RemoteTimerFires == remoteTimer /\ ~remoteTimer' /\ remoteRendered' = remoteRendered

\* A step in which the timeout of the shake decay effect fires.
ShakeTimerFires == shakeTimer /\ ~shakeTimer' /\ shakeRendered' = shakeRendered

\* The scalar s is a number lowered to s2 by the step d, floored at zero.
LoweredBy(s, s2, d) ==
  /\ s.k = "num" /\ s.v > 0
  /\ s2 = Num(IF s.v > d THEN s.v - d ELSE 0)

\* C28: the remote wind decay timer is pending only while the remote wind
\* scalar is positive, and each firing lowers the scalar by 0.2, floored
\* at zero, whatever messages arrive in between.
C28_RemoteTimerDecays ==
  [][/\ remoteTimer => JsGt(remoteWindIntensity, Num(0))
     /\ RemoteTimerFires =>
          LoweredBy(remoteWindIntensity, remoteWindIntensity', RemoteDecay)]_vars

\* The same for the shake decay timer and its step of 0.1.
ShakeTimerDecays ==
  [][/\ shakeTimer => JsGt(shakeIntensity, Num(0))
     /\ ShakeTimerFires =>
          LoweredBy(shakeIntensity, shakeIntensity', ShakeDecay)]_vars

\* No debounce timeout is pending and no searchCities call is in flight.
SearchSettled == searchTimeout = NoTimer /\ inFlight = {}

\* C29: once the debounce timeouts and the requests have completed,
\* isSearching is false and searchResults are the results for the text in
\* the box (none for a text shorter than 2 characters).
C29_SettledShowsFinalQuery ==
  SearchSettled =>
    /\ ~isSearching
    /\ searchResults = Geocode(searchQuery)

\* C30: the recording-time counter never exceeds MAX_RECORDING_TIME, and
\* when it has reached MAX_RECORDING_TIME in a recording that the button did
\* not stop, the stop of the recorder has been requested.
C30_StopRequestedAtMax ==
  /\ recordingTime <= MAX_RECORDING_TIME
  /\ (recordingTime = MAX_RECORDING_TIME /\ ~stoppedByHand) => recorderState = "inactive"

\* While the recorder records without a stop by hand, the counter is the
\* number of interval callbacks so far, at most MAX_RECORDING_TIME; the stop is
\* requested by the callback after the one that brought the counter there.
StopRequestedAtNextTick ==
  /\ recordingTime <= MAX_RECORDING_TIME
  /\ recorderState = "recording" =>
       intervalTicks = recordingTime
  /\ (recorderState = "inactive" /\ ~stoppedByHand) =>
       intervalTicks > MAX_RECORDING_TIME

=============================================================================
